---- MODULE Spec2Model ----
(***************************************************************************)
(* A model of the MemoryRelay MCP server's API client: the retry policy    *)
(* (withRetry), the HTTP request executor (MemoryRelayClient.request), the *)
(* secret redactor (maskApiKey), the client operations built on them and   *)
(* the tool-call handler that wraps them.                                  *)
(*                                                                         *)
(* Strings are TLA+ strings; String.prototype.includes, RegExp matching,   *)
(* template interpolation of numbers and parseInt are computed character   *)
(* by character.  JavaScript numbers are records [nan, n], so that NaN is  *)
(* a value of its own.                                                     *)
(***************************************************************************)
EXTENDS Integers, Sequences, FiniteSets, TLC

VARIABLES
  config,      \* ClientConfig: apiKey, apiUrl, agentId, timeout (ms)
  pc,          \* "idle" | "attempt" | "inflight" | "backoff" | "done"
  call,        \* the tool call being served: tool name and arguments
  attempt,     \* withRetry's loop variable
  lastError,   \* withRetry's lastError
  log,         \* one entry per network attempt: the network's answer, how the
               \* attempt ended, the rate-limit wait it slept
  backoffs,    \* the backoff sleeps taken between the end of the last attempt
               \* and the start of the next one
  reqResult,   \* how MemoryRelayClient.request ended
  opResult,    \* how the client operation ended
  toolResult,  \* what the tool-call handler returned to the MCP caller
  maskArgs,    \* the arguments of a call of maskApiKey on its own
  maskResult,  \* what that call returned or threw
  sanitizeArg, \* the argument of a call of sanitizeHtml on its own
  sanitizeResult, \* what that call returned and what entity_create then sends
  env,         \* process.env at startup
  proc,        \* the process: how far main() got, what it printed, its exit code
  server,      \* the memories held by the API server the client talks to
  logged,      \* a call of the logger on its own and the line it wrote to stderr
  tasks,       \* the client operations running concurrently on one client
  pending,     \* the event loop: the timers armed and the fetches in flight
  clock        \* the time of the event loop (ms)

vars == <<config, pc, call, attempt, lastError, log, backoffs, reqResult, opResult,
          toolResult, maskArgs, maskResult, sanitizeArg, sanitizeResult, env, proc,
          server, logged, tasks, pending, clock>>

\* the variables of the logger on its own and of the event loop
loop == <<logged, tasks, pending, clock>>

\* the variables no client operation touches
aside == <<maskArgs, maskResult, sanitizeArg, sanitizeResult, env, proc, server, loop>>

aside_trip == <<maskArgs, maskResult, sanitizeArg, sanitizeResult, env, proc, loop>>

----------------------------------------------------------------------------
(* Program constants *)

MAX_RETRIES == 3

INITIAL_DELAY_MS == 1000

MAX_CONTENT_SIZE == 50 * 1024

(* Bound of the model: Math.random() is sampled on the grid k / JitterSamples *)
JitterSamples == 2

----------------------------------------------------------------------------
(* Strings and numbers as JavaScript computes them *)

Chr(s, i) == SubSeq(s, i, i)

Min(a, b) == IF a < b THEN a ELSE b

\* String.prototype.includes
Includes(s, sub) ==
  \E i \in 1..(Len(s) - Len(sub) + 1) : SubSeq(s, i, i + Len(sub) - 1) = sub

\* String.prototype.substring(0, n)
Substring0(s, n) == SubSeq(s, 1, Min(n, Len(s)))

Digit(d) == Chr("0123456789", d + 1)

IsDigit(c) == \E d \in 0..9 : Digit(d) = c

\* Number -> decimal string, as a template literal formats an integer
RECURSIVE NumToString(_)
NumToString(n) ==
  IF n < 0 THEN "-" \o NumToString(0 - n)
  ELSE IF n < 10 THEN Digit(n)
  ELSE NumToString(n \div 10) \o Digit(n % 10)

JSNum(n) == [nan |-> FALSE, n |-> n]

NaN == [nan |-> TRUE, n |-> 0]

\* the digits of s from position i on, folded into acc
RECURSIVE ParseDigits(_, _, _)
ParseDigits(s, i, acc) ==
  LET
      DigitVal(c) == CHOOSE d \in 0..9 : Digit(d) = c
  IN
  IF i <= Len(s) /\ IsDigit(Chr(s, i))
  THEN ParseDigits(s, i + 1, acc * 10 + DigitVal(Chr(s, i)))
  ELSE acc

RECURSIVE SkipSpaces(_, _)
SkipSpaces(s, i) ==
  IF i <= Len(s) /\ Chr(s, i) = " " THEN SkipSpaces(s, i + 1) ELSE i

\* parseInt(s): leading blanks, an optional sign, then the longest run of
\* digits; NaN when there is no digit there
parseInt(s) ==
  LET i == SkipSpaces(s, 1)
      signed == i <= Len(s) /\ Chr(s, i) \in {"-", "+"}
      j == IF signed THEN i + 1 ELSE i
  IN IF j <= Len(s) /\ IsDigit(Chr(s, j))
     THEN JSNum((IF signed /\ Chr(s, i) = "-" THEN 0 - 1 ELSE 1) * ParseDigits(s, j, 0))
     ELSE NaN

----------------------------------------------------------------------------
(* new RegExp(pattern, 'g') for patterns made of literal characters, '.',  *)
(* a postfix '+' and '('                                                   *)

\* the SyntaxError new RegExp(p) throws, "" when p compiles
RegExpError(p) ==
  IF \E i \in 1..Len(p) : Chr(p, i) = "+" /\ (i = 1 \/ Chr(p, i - 1) \in {"+", "("})
  THEN "Invalid regular expression: /" \o p \o "/: Nothing to repeat"
  ELSE IF \E i \in 1..Len(p) : Chr(p, i) = "("
  THEN "Invalid regular expression: /" \o p \o "/: Unterminated group"
  ELSE ""

AtomMatches(a, c) == a = "." \/ a = c

\* how many characters of s from si on match atom a
RECURSIVE RunLength(_, _, _)
RunLength(a, s, si) ==
  IF si <= Len(s) /\ AtomMatches(a, Chr(s, si)) THEN 1 + RunLength(a, s, si + 1) ELSE 0

\* whether the atom at p[j] is a plain character taken exactly once
Literal(p, j) ==
  /\ j <= Len(p)
  /\ Chr(p, j) # "."
  /\ ~(j + 1 <= Len(p) /\ Chr(p, j + 1) = "+")

\* the end of the run of plain characters that starts at p[pi]: the first
\* position from pi on that is no Literal
LiteralEnd(p, pi) ==
  CHOOSE j \in pi..(Len(p) + 1) :
    /\ ~Literal(p, j)
    /\ \A k \in pi..(j - 1) : Literal(p, k)

\* the position after the match of p[pi..] at s[si..], 0 when there is none;
\* a run of plain characters is compared as a whole, '+' is greedy and
\* backtracks
RECURSIVE MatchFrom(_, _, _, _)
RECURSIVE PlusTry(_, _, _, _, _)
MatchFrom(p, pi, s, si) ==
  IF pi > Len(p) THEN si
  ELSE IF Literal(p, pi)
  THEN LET n == LiteralEnd(p, pi) - pi
       IN IF /\ si <= Len(s) /\ Chr(s, si) = Chr(p, pi)
             /\ si + n - 1 <= Len(s)
             /\ SubSeq(s, si, si + n - 1) = SubSeq(p, pi, pi + n - 1)
          THEN MatchFrom(p, pi + n, s, si + n)
          ELSE 0
  ELSE IF pi + 1 <= Len(p) /\ Chr(p, pi + 1) = "+"
  THEN PlusTry(p, pi, s, si, RunLength(Chr(p, pi), s, si))
  ELSE IF si <= Len(s) /\ AtomMatches(Chr(p, pi), Chr(s, si))
  THEN MatchFrom(p, pi + 1, s, si + 1)
  ELSE 0

PlusTry(p, pi, s, si, n) ==
  IF n < 1 THEN 0
  ELSE LET e == MatchFrom(p, pi + 2, s, si + n)
       IN IF e # 0 THEN e ELSE PlusTry(p, pi, s, si, n - 1)

\* the first position from i on where p matches in s, 0 when there is none
FirstMatch(s, p, i) ==
  LET starts == { j \in i..Len(s) : MatchFrom(p, 1, s, j) > j }
  IN IF starts = {} THEN 0 ELSE CHOOSE j \in starts : \A k \in starts : j <= k

\* s.replace(new RegExp(p, 'g'), r) from position i on: the text up to each
\* match is kept, the match is replaced, and the search goes on after it
RECURSIVE ReplaceFrom(_, _, _, _)
ReplaceFrom(s, p, r, i) ==
  LET m == FirstMatch(s, p, i)
  IN IF m = 0 THEN SubSeq(s, i, Len(s))
     ELSE SubSeq(s, i, m - 1) \o r \o ReplaceFrom(s, p, r, MatchFrom(p, 1, s, m))

----------------------------------------------------------------------------
(* Errors and results *)

Err(name, message) == [name |-> name, message |-> message]

TypeErrorReading(what, member) ==
  Err("TypeError", "Cannot read properties of " \o what \o " (reading '" \o member \o "')")

NoError == Err("", "")

Returned(v) == [kind |-> "return", value |-> v, error |-> NoError]

Thrown(e) == [kind |-> "throw", value |-> <<>>, error |-> e]

Pending == [kind |-> "pending", value |-> <<>>, error |-> NoError]

----------------------------------------------------------------------------
(* JSON values: an object is the sequence of its <<name, value>> members,  *)
(* in insertion order                                                      *)

\* obj[name], "" when the member is absent (undefined)
RECURSIVE Field(_, _)
Field(obj, name) ==
  IF obj = <<>> THEN ""
  ELSE IF Head(obj)[1] = name THEN Head(obj)[2]
  ELSE Field(Tail(obj), name)

\* A member <<name, value>> holds a string; a member <<name, text, "raw">>
\* holds a number or a boolean, given by its JSON text; a member
\* <<name, items, "array">> holds an array of objects.
Raw(name, text) == <<name, text, "raw">>

Array(name, items) == <<name, items, "array">>

\* the escaped form of s from position i on, one step per escaped character
RECURSIVE EscapeFrom(_, _)
EscapeFrom(s, i) ==
  LET
      \* JSON.stringify(value, null, 2): pad is the indentation of the enclosing line
      \* the escape JSON.stringify writes for a character of a string
      EscapeChar(c) ==
        CASE c = "\"" -> "\\\""
          [] c = "\\" -> "\\\\"
          [] c = "\n" -> "\\n"
          [] c = "\t" -> "\\t"
          [] OTHER -> c
  IN
  LET hits == {j \in i..Len(s) : EscapeChar(Chr(s, j)) # Chr(s, j)}
  IN IF hits = {} THEN SubSeq(s, i, Len(s))
     ELSE LET j == CHOOSE h \in hits : \A k \in hits : h <= k
          IN SubSeq(s, i, j - 1) \o EscapeChar(Chr(s, j)) \o EscapeFrom(s, j + 1)

\* JSON.stringify of a string: the string literal
JSONQuote(s) == "\"" \o EscapeFrom(s, 1) \o "\""

\* the text of the literal t from position i up to its closing quote, one
\* step per escape sequence
RECURSIVE UnescapeFrom(_, _)
UnescapeFrom(t, i) ==
  LET
      \* the character an escape sequence \c stands for
      UnescapeChar(c) ==
        CASE c = "n" -> "\n"
          [] c = "t" -> "\t"
          [] OTHER -> c
  IN
  LET hits == {j \in i..(Len(t) - 1) : Chr(t, j) = "\\"}
  IN IF hits = {} THEN SubSeq(t, i, Len(t) - 1)
     ELSE LET j == CHOOSE h \in hits : \A k \in hits : h <= k
          IN SubSeq(t, i, j - 1) \o UnescapeChar(Chr(t, j + 1)) \o UnescapeFrom(t, j + 2)

RECURSIVE StringifyMembers(_, _)
RECURSIVE StringifyItems(_, _)
StringifyObject(obj, pad) ==
  IF obj = <<>> THEN "{}" ELSE "{" \o StringifyMembers(obj, pad) \o "}"

StringifyArray(items, pad) ==
  IF items = <<>> THEN "[]" ELSE "[" \o StringifyItems(items, pad) \o "]"

StringifyMembers(obj, pad) ==
  IF obj = <<>> THEN ""
  ELSE "\n" \o pad \o "  \"" \o Head(obj)[1] \o "\": "
       \o (IF Len(Head(obj)) = 2 THEN JSONQuote(Head(obj)[2])
           ELSE IF Head(obj)[3] = "raw" THEN Head(obj)[2]
           ELSE StringifyArray(Head(obj)[2], pad \o "  "))
       \o (IF Len(obj) > 1 THEN "," ELSE "\n" \o pad) \o StringifyMembers(Tail(obj), pad)

StringifyItems(items, pad) ==
  IF items = <<>> THEN ""
  ELSE "\n" \o pad \o "  " \o StringifyObject(Head(items), pad \o "  ")
       \o (IF Len(items) > 1 THEN "," ELSE "\n" \o pad) \o StringifyItems(Tail(items), pad)

\* JSON.stringify(obj, null, 2)
JSONstringify(obj) == StringifyObject(obj, "")

----------------------------------------------------------------------------
(* The secret redactor *)

Masked(message) == [threw |-> FALSE, message |-> message, error |-> NoError]

MaskThrew(e) == [threw |-> TRUE, message |-> "", error |-> e]

\* maskApiKey without its test for a missing key: the mask is put in even
\* when there is no key to look for
maskApiKey_noKeyTest(message, apiKey) ==
  IF RegExpError(apiKey) # ""
  THEN MaskThrew(Err("SyntaxError", RegExpError(apiKey)))
  ELSE Masked(ReplaceFrom(message, apiKey, Substring0(apiKey, 8) \o "***", 1)
              \o (IF apiKey = "" THEN "***" ELSE ""))

\* maskApiKey: every match of the RegExp built from apiKey is replaced by the
\* first 8 characters of apiKey and "***"; building the RegExp may throw
maskApiKey(message, apiKey) ==
  IF apiKey = "" THEN Masked(message)
  ELSE IF RegExpError(apiKey) # ""
  THEN MaskThrew(Err("SyntaxError", RegExpError(apiKey)))
  ELSE Masked(ReplaceFrom(message, apiKey, Substring0(apiKey, 8) \o "***", 1))

\* JavaScript values an argument can hold: a string, a number, undefined, null
Str(s) == [type |-> "string", str |-> s, num |-> 0]

Num(n) == [type |-> "number", str |-> "", num |-> n]

Undefined == [type |-> "undefined", str |-> "", num |-> 0]

Null == [type |-> "null", str |-> "", num |-> 0]

\* no call of maskApiKey on its own has been made
NoMaskArgs == [message |-> "", apiKey |-> Undefined]

NotCalled == [called |-> FALSE, result |-> Masked("")]

\* sanitizeHtml not called yet
NotSanitized == [called |-> FALSE, output |-> "", sent |-> ""]

\* a process.env without any of the variables the server reads
NoEnv ==
  [MEMORYRELAY_API_KEY |-> Undefined, MEMORYRELAY_API_URL |-> Undefined,
   MEMORYRELAY_AGENT_ID |-> Undefined, MEMORYRELAY_TIMEOUT |-> Undefined,
   MEMORYRELAY_LOG_LEVEL |-> Undefined, OPENCLAW_AGENT_NAME |-> Undefined,
   HOSTNAME |-> Undefined]

\* main() not entered yet
NotStarted ==
  [phase |-> "init", exitCode |-> 0 - 1, stderr |-> <<>>, config |-> <<>>,
   agentId |-> "", starts |-> 0, served |-> 0]

\* an API server holding no memory
NoMemories == <<>>

NotLogged ==
  [called |-> FALSE, level |-> "", message |-> "",
   data |-> [present |-> FALSE, object |-> <<>>], line |-> ""]

----------------------------------------------------------------------------
(* What the network can answer to one attempt *)

NoHeader == [present |-> FALSE, value |-> ""]

Header(v) == [present |-> TRUE, value |-> v]

JsonBody(v) == [parses |-> TRUE, null |-> FALSE, value |-> v]

NotJson == [parses |-> FALSE, null |-> FALSE, value |-> <<>>]

Response(status, statusText, retryAfter, body) ==
  [status |-> status, statusText |-> statusText, retryAfter |-> retryAfter, body |-> body]

NoResponse == Response(0, "", NoHeader, NotJson)

\* response.ok
Ok(response) == response.status >= 200 /\ response.status <= 299

Responds(r) == [kind |-> "response", response |-> r, error |-> NoError]

Rejects(e) == [kind |-> "reject", response |-> NoResponse, error |-> e]

\* controller.abort() while the fetch is pending: fetch rejects with an AbortError
Aborted == [kind |-> "abort", response |-> NoResponse,
            error |-> Err("AbortError", "This operation was aborted")]

Message(m) == <<(<<"message", m>>)>>

NetworkErrors(apiKey) ==
  { Err("TypeError", "connect ECONNREFUSED, headers: Bearer " \o apiKey) }

----------------------------------------------------------------------------
(* MemoryRelayClient.request: one attempt *)

\* the catch block of the attempt
\* error.message = masked: the error leaves with the masked message, or the
\* SyntaxError of maskApiKey leaves in its place
WithMessage(error, masked) ==
  IF masked.threw THEN masked.error ELSE [error EXCEPT !.message = masked.message]

\* WaitMs with the header's seconds taken for milliseconds
WaitMs_seconds(response) ==
  IF response.retryAfter.present /\ response.retryAfter.value # ""
  THEN parseInt(response.retryAfter.value)
  ELSE JSNum(5000)

\* const waitMs = retryAfter ? parseInt(retryAfter) * 1000 : 5000
WaitMs(response) ==
  LET
      JSTimes(x, k) == IF x.nan THEN NaN ELSE JSNum(x.n * k)
  IN
  IF response.retryAfter.present /\ response.retryAfter.value # ""
  THEN JSTimes(parseInt(response.retryAfter.value), 1000)
  ELSE JSNum(5000)

\* the function request() hands to withRetry, run against one answer of the
\* network: how it ends and the rate-limit wait it slept
AttemptFn(cfg, outcome) ==
  LET
      JSNumToString(x) == IF x.nan THEN "NaN" ELSE NumToString(x.n)
      \* setTimeout(resolve, ms): the delay the timer really runs for (a delay that
      \* is NaN, below 1 or above 2^31 - 1 is run as 1 ms)
      TimerDelay(x) == IF x.nan \/ x.n < 1 \/ x.n > 2147483647 THEN 1 ELSE x.n
      RateLimitError(response) ==
        Err("Error", "Rate limited: 429 - Retry after " \o JSNumToString(WaitMs(response)) \o "ms")
      \* await new Promise(resolve => setTimeout(resolve, waitMs))
      RateLimitSleep(response) == [kind |-> "rateLimit", ms |-> TimerDelay(WaitMs(response))]
      CatchBlock(cfg1, error1) ==
        IF error1.name = "AbortError"
        THEN Err("Error", "Request timeout after " \o NumToString(cfg1.timeout) \o "ms")
        ELSE WithMessage(error1, maskApiKey(error1.message, cfg1.apiKey))
      \* throw new Error(maskApiKey(errorMsg, this.config.apiKey)); reading
      \* errorData.message of a body that parsed to null throws instead
      StatusError(cfg1, response1) ==
        LET
            \* errorData = await response.json().catch(() => ({})), then the message
            ErrorMsg(r) ==
              LET errorData == IF r.body.parses THEN r.body.value ELSE <<>>
              IN "API request failed: " \o NumToString(r.status) \o " " \o r.statusText
                   \o (IF Field(errorData, "message") # ""
                       THEN " - " \o Field(errorData, "message") ELSE "")
        IN
        IF response1.body.null THEN TypeErrorReading("null", "message")
        ELSE WithMessage(Err("Error", ""), maskApiKey(ErrorMsg(response1), cfg1.apiKey))
  IN
  IF outcome.kind # "response"
  THEN [result |-> Thrown(CatchBlock(cfg, outcome.error)), waited |-> <<>>]
  ELSE IF ~Ok(outcome.response)
  THEN IF outcome.response.status = 429
       THEN [result |-> Thrown(CatchBlock(cfg, RateLimitError(outcome.response))),
             waited |-> <<RateLimitSleep(outcome.response)>>]
       ELSE [result |-> Thrown(CatchBlock(cfg, StatusError(cfg, outcome.response))),
             waited |-> <<>>]
  ELSE IF outcome.response.body.parses
  THEN [result |-> Returned(outcome.response.body.value), waited |-> <<>>]
  ELSE [result |-> Thrown(CatchBlock(cfg, Err("SyntaxError", "Unexpected end of JSON input"))),
        waited |-> <<>>]

----------------------------------------------------------------------------
(* withRetry *)

\* the failures withRetry rethrows at once
NonRetryable(message) ==
  \/ Includes(message, "401")
  \/ Includes(message, "403")
  \/ Includes(message, "404")
  \/ Includes(message, "400")

\* withRetry with the last attempt recognised one iteration too late
withRetry_offByOne(n, result, retries) ==
  IF result.kind = "return" THEN "return"
  ELSE IF NonRetryable(result.error.message) THEN "throw"
  ELSE IF n = retries + 1 THEN "throw"
  ELSE "backoff"

\* what one iteration of the loop does with the result of fn()
withRetry(n, result, retries) ==
  IF result.kind = "return" THEN "return"
  ELSE IF NonRetryable(result.error.message) THEN "throw"
  ELSE IF n = retries THEN "throw"
  ELSE "backoff"

\* the delay growing by INITIAL_DELAY_MS per attempt instead of doubling
Delay_linear(n) == INITIAL_DELAY_MS * (n + 1)

\* const delay = INITIAL_DELAY_MS * Math.pow(2, attempt)
Delay(n) == INITIAL_DELAY_MS * (2 ^ n)

\* await new Promise(resolve => setTimeout(resolve, delay + jitter))
BackoffSleep(n, k) ==
  LET
      \* Math.random() * 0.3 * delay, Math.random() being k / JitterSamples
      Jitter(n1, k1) == (k1 * 3 * Delay(n1)) \div (10 * JitterSamples)
  IN
                      [kind |-> "backoff", ms |-> Delay(n) + Jitter(n, k)]

----------------------------------------------------------------------------
(* Client operations and the tool-call handler *)

PlainKey == "mem_test_1234567890abcdef"

PlusKey == "mem_test_a+b4567890abcdef"

GroupKey == "mem_test_(234567890abcdef"

ClientConfig(apiKey, timeout) ==
  [apiKey |-> apiKey, apiUrl |-> "https://api.memoryrelay.net",
   agentId |-> "test-agent", timeout |-> timeout]

Configs ==
  { ClientConfig(PlainKey, 30000), ClientConfig(PlainKey, 4000),
    ClientConfig(PlusKey, 30000), ClientConfig(GroupKey, 30000) }

\* 'x'.repeat(n)
RECURSIVE Repeat(_, _)
Repeat(s, n) ==
  IF n = 0 THEN ""
  ELSE IF n % 2 = 0 THEN LET h == Repeat(s, n \div 2) IN h \o h
  ELSE s \o Repeat(s, n - 1)

\* a tools/call request: the tool name and request.params.arguments, a record
\* of JavaScript values (<<>> for {}), or Undefined when the request has none
Call(name, args) == [via |-> "tool", name |-> name, args |-> args]

\* a method of MemoryRelayClient called directly, with its parameters by name
ClientCall(name, args) == [via |-> "client", name |-> name, args |-> args]

NoCall == [via |-> "", name |-> "", args |-> <<>>]

\* args.f: undefined when the member is absent
Arg(args, f) == IF f \in DOMAIN args THEN args[f] ELSE Undefined

\* a parameter with a default value: the default replaces undefined only
Default(v, d) == IF v.type = "undefined" THEN d ELSE v

\* `${v}` in a template literal
ToStr(v) ==
  IF v.type = "string" THEN v.str
  ELSE IF v.type = "number" THEN NumToString(v.num)
  ELSE v.type

----------------------------------------------------------------------------
(* Local validation: UUIDs, entity schemas, HTML escaping, content size *)

\* z.string().uuid(): five groups of 8, 4, 4, 4 and 12 hexadecimal digits
\* joined by hyphens, in either case
IsUuid(v) ==
  LET
      IsHex(c) == \E i \in 1..22 : Chr("0123456789abcdefABCDEF", i) = c
  IN
  /\ v.type = "string"
  /\ Len(v.str) = 36
  /\ \A i \in 1..36 :
       IF i \in {9, 14, 19, 24} THEN Chr(v.str, i) = "-" ELSE IsHex(Chr(v.str, i))

\* validateUuid letting every id through
validateUuid_unchecked(id, fieldName) == NoError

\* validateUuid: the error it throws, NoError when the id passes
validateUuid(id, fieldName) ==
  IF IsUuid(id) THEN NoError
  ELSE Err("Error", "Invalid " \o fieldName \o ": must be a valid UUID")

\* sanitizeHtml with '&' replaced last instead of first
sanitizeHtml_ampLast(str) ==
  LET s1 == ReplaceFrom(str, "<", "&lt;", 1)
      s2 == ReplaceFrom(s1, ">", "&gt;", 1)
      s3 == ReplaceFrom(s2, "\"", "&quot;", 1)
      s4 == ReplaceFrom(s3, "'", "&#x27;", 1)
      s5 == ReplaceFrom(s4, "/", "&#x2F;", 1)
  IN ReplaceFrom(s5, "&", "&amp;", 1)

\* sanitizeHtml: six replacements one after the other, '&' first
sanitizeHtml(str) ==
  LET s1 == ReplaceFrom(str, "&", "&amp;", 1)
      s2 == ReplaceFrom(s1, "<", "&lt;", 1)
      s3 == ReplaceFrom(s2, ">", "&gt;", 1)
      s4 == ReplaceFrom(s3, "\"", "&quot;", 1)
      s5 == ReplaceFrom(s4, "'", "&#x27;", 1)
  IN ReplaceFrom(s5, "/", "&#x2F;", 1)

\* an issue of a ZodError, abbreviated to its code and message
Issue(code, message) == <<(<<"code", code>>), (<<"message", message>>)>>

EntityTypes == {"person", "place", "organization", "project", "concept", "other"}

\* the issues z.string() raises for a value that is no string
StringIssues(v) ==
  IF v.type = "string" THEN <<>>
  ELSE IF v.type = "undefined" THEN <<Issue("invalid_type", "Required")>>
  ELSE <<Issue("invalid_type", "Expected string, received " \o v.type)>>

\* entitySchema.parse(args): name is a string of 1 to 200 characters, type is
\* one of EntityTypes
entitySchema(args) ==
  IF args = Undefined THEN <<Issue("invalid_type", "Required")>>
  ELSE LET name == Arg(args, "name")
           type == Arg(args, "type")
       IN (IF name.type # "string" THEN StringIssues(name)
           ELSE IF Len(name.str) < 1
           THEN <<Issue("too_small", "String must contain at least 1 character(s)")>>
           ELSE IF Len(name.str) > 200
           THEN <<Issue("too_big", "String must contain at most 200 character(s)")>>
           ELSE <<>>)
          \o (IF type.type = "undefined" THEN <<Issue("invalid_type", "Required")>>
              ELSE IF type.type = "string" /\ type.str \in EntityTypes THEN <<>>
              ELSE <<Issue("invalid_enum_value",
                           "Invalid enum value. Expected 'person' | 'place' | 'organization' | 'project' | 'concept' | 'other', received '"
                             \o ToStr(type) \o "'")>>)

\* validateContentSize with the limit itself rejected (>= for >)
validateContentSize_atLimit(content) ==
  IF content.type \in {"undefined", "null"}
  THEN TypeErrorReading(content.type, "length")
  ELSE IF content.type = "string" /\ Len(content.str) >= MAX_CONTENT_SIZE
  THEN Err("Error", "Content exceeds maximum size of "
                      \o NumToString(MAX_CONTENT_SIZE) \o " bytes")
  ELSE NoError

\* validateContentSize: the error it throws, NoError when the content passes;
\* content.length is read whatever the type of content
validateContentSize(content) ==
  IF content.type \in {"undefined", "null"}
  THEN TypeErrorReading(content.type, "length")
  ELSE IF content.type = "string" /\ Len(content.str) > MAX_CONTENT_SIZE
  THEN Err("Error", "Content exceeds maximum size of "
                      \o NumToString(MAX_CONTENT_SIZE) \o " bytes")
  ELSE NoError

----------------------------------------------------------------------------
(* The tool-call handler, up to the call of the client *)

Tools ==
  { "memory_store", "memory_search", "memory_list", "memory_get", "memory_update",
    "memory_delete", "entity_create", "entity_link", "memory_health" }

\* what the handler throws before it calls the client, NoError when it calls
ToolError(c) ==
  LET
      \* the member of args each case of the handler reads first
      FirstArg(name) ==
        CASE name = "memory_store" -> "content"
          [] name = "memory_search" -> "query"
          [] name = "memory_list" -> "limit"
          [] OTHER -> "id"
      ZodError(issues) ==
        [name |-> "ZodError", message |-> StringifyArray(issues, ""), errors |-> issues]
      \* linkSchema.parse(args): entity_id and memory_id are UUIDs, relationship is
      \* a string with a default
      linkSchema(args) ==
        LET
            UuidIssues(v) ==
              IF v.type # "string" THEN StringIssues(v)
              ELSE IF IsUuid(v) THEN <<>>
              ELSE <<Issue("invalid_string", "Invalid uuid")>>
        IN
        IF args = Undefined THEN <<Issue("invalid_type", "Required")>>
        ELSE UuidIssues(Arg(args, "entity_id")) \o UuidIssues(Arg(args, "memory_id"))
             \o StringIssues(Default(Arg(args, "relationship"), Str("mentioned_in")))
  IN
  IF c.name \notin Tools THEN Err("Error", "Unknown tool: " \o c.name)
  ELSE IF c.name = "memory_health" THEN NoError
  ELSE IF c.name = "entity_create"
  THEN IF entitySchema(c.args) # <<>> THEN ZodError(entitySchema(c.args)) ELSE NoError
  ELSE IF c.name = "entity_link"
  THEN IF linkSchema(c.args) # <<>> THEN ZodError(linkSchema(c.args)) ELSE NoError
  ELSE IF c.args = Undefined THEN TypeErrorReading("undefined", FirstArg(c.name))
  ELSE IF c.name \in {"memory_get", "memory_update", "memory_delete"}
  THEN validateUuid(Arg(c.args, "id"), "memory_id")
  ELSE NoError

\* the client method the handler calls, with the parameters it passes
ToolOp(c) ==
  CASE c.name = "memory_store" ->
         ClientCall("storeMemory", [content |-> Arg(c.args, "content")])
    [] c.name = "memory_search" ->
         ClientCall("searchMemories", [query |-> Arg(c.args, "query"),
                                       limit |-> Arg(c.args, "limit"),
                                       threshold |-> Arg(c.args, "threshold")])
    [] c.name = "memory_list" ->
         ClientCall("listMemories", [limit |-> Arg(c.args, "limit"),
                                     offset |-> Arg(c.args, "offset")])
    [] c.name = "memory_get" -> ClientCall("getMemory", [id |-> Arg(c.args, "id")])
    [] c.name = "memory_update" ->
         ClientCall("updateMemory", [id |-> Arg(c.args, "id"),
                                     content |-> Arg(c.args, "content")])
    [] c.name = "memory_delete" -> ClientCall("deleteMemory", [id |-> Arg(c.args, "id")])
    [] c.name = "entity_create" ->
         ClientCall("createEntity", [name |-> Str(sanitizeHtml(Arg(c.args, "name").str)),
                                     type |-> Arg(c.args, "type")])
    [] c.name = "entity_link" ->
         ClientCall("linkEntity",
                    [entityId |-> Arg(c.args, "entity_id"),
                     memoryId |-> Arg(c.args, "memory_id"),
                     relationship |-> Default(Arg(c.args, "relationship"), Str("mentioned_in"))])
    [] OTHER -> ClientCall("healthCheck", <<>>)

\* the client method a call runs: the one the handler calls, or the call itself
OpOf(c) == IF c.via = "tool" THEN ToolOp(c) ELSE c

----------------------------------------------------------------------------
(* Client operations *)

\* what the client method throws before it calls request()
LocalCheck(op) ==
  CASE op.name = "storeMemory" -> validateContentSize(op.args.content)
    [] op.name = "searchMemories" -> validateContentSize(op.args.query)
    [] op.name = "updateMemory" -> validateContentSize(op.args.content)
    [] op.name = "createEntity" -> validateContentSize(op.args.name)
    [] OTHER -> NoError

\* the method and path the client method hands to request()
OpMethod(op) ==
  CASE op.name \in {"storeMemory", "searchMemories", "createEntity", "linkEntity"} -> "POST"
    [] op.name = "updateMemory" -> "PATCH"
    [] op.name \in {"deleteMemory", "deleteEntity"} -> "DELETE"
    [] OTHER -> "GET"

OpPath(op) ==
  LET
      Pagination(op1) ==
        "?limit=" \o ToStr(Default(Arg(op1.args, "limit"), Num(20)))
          \o "&offset=" \o ToStr(Default(Arg(op1.args, "offset"), Num(0)))
  IN
  CASE op.name = "storeMemory" -> "/v1/memories/memories"
    [] op.name = "searchMemories" -> "/v1/memories/memories/search"
    [] op.name = "listMemories" -> "/v1/memories/memories" \o Pagination(op)
    [] op.name \in {"getMemory", "updateMemory", "deleteMemory"} ->
         "/v1/memories/memories/" \o ToStr(op.args.id)
    [] op.name = "createEntity" -> "/v1/entities"
    [] op.name = "linkEntity" -> "/v1/entities/links"
    [] op.name \in {"getEntity", "deleteEntity"} -> "/v1/entities/" \o ToStr(op.args.id)
    [] op.name = "listEntities" -> "/v1/entities" \o Pagination(op)
    [] OTHER -> "/v1/health"

\* the default of a numeric parameter that is not an integer: the number
\* carries its decimal text
Decimal(text) == [type |-> "number", str |-> text, num |-> 0]

\* OpBody with the content of a stored memory HTML-escaped
OpBody_sanitized(cfg, op) ==
  CASE op.name = "storeMemory" ->
         <<(<<"content", Str(sanitizeHtml(op.args.content.str))>>),
           (<<"metadata", Undefined>>), (<<"agent_id", Str(cfg.agentId)>>)>>
    [] op.name = "searchMemories" ->
         <<(<<"query", op.args.query>>),
           (<<"limit", Default(Arg(op.args, "limit"), Num(10))>>),
           (<<"threshold", Default(Arg(op.args, "threshold"), Decimal("0.5"))>>),
           (<<"agent_id", Str(cfg.agentId)>>)>>
    [] op.name = "updateMemory" ->
         <<(<<"content", op.args.content>>), (<<"metadata", Undefined>>)>>
    [] op.name = "createEntity" ->
         <<(<<"name", op.args.name>>), (<<"type", op.args.type>>),
           (<<"metadata", Undefined>>)>>
    [] op.name = "linkEntity" ->
         <<(<<"entity_id", op.args.entityId>>), (<<"memory_id", op.args.memoryId>>),
           (<<"relationship", op.args.relationship>>)>>
    [] OTHER -> <<>>

\* the object the client method hands to request() as body, <<>> when it
\* hands none; metadata is left undefined by every call explored
OpBody(cfg, op) ==
  CASE op.name = "storeMemory" ->
         <<(<<"content", op.args.content>>), (<<"metadata", Undefined>>),
           (<<"agent_id", Str(cfg.agentId)>>)>>
    [] op.name = "searchMemories" ->
         <<(<<"query", op.args.query>>),
           (<<"limit", Default(Arg(op.args, "limit"), Num(10))>>),
           (<<"threshold", Default(Arg(op.args, "threshold"), Decimal("0.5"))>>),
           (<<"agent_id", Str(cfg.agentId)>>)>>
    [] op.name = "updateMemory" ->
         <<(<<"content", op.args.content>>), (<<"metadata", Undefined>>)>>
    [] op.name = "createEntity" ->
         <<(<<"name", op.args.name>>), (<<"type", op.args.type>>),
           (<<"metadata", Undefined>>)>>
    [] op.name = "linkEntity" ->
         <<(<<"entity_id", op.args.entityId>>), (<<"memory_id", op.args.memoryId>>),
           (<<"relationship", op.args.relationship>>)>>
    [] OTHER -> <<>>

\* body: JSON.stringify(body): the members that are not undefined, each
\* value as its JSON text
SentBody(cfg, op) ==
  LET Defined(member) == member[2].type # "undefined"
      Text(v) == IF v.type = "string" THEN JSONQuote(v.str)
                 ELSE IF v.type = "number"
                 THEN (IF v.str # "" THEN v.str ELSE NumToString(v.num))
                 ELSE "null"
      members == SelectSeq(OpBody(cfg, op), Defined)
  IN [i \in 1..Len(members) |-> <<members[i][1], Text(members[i][2])>>]

\* Request with the Content-Type header left out of a request without body
Request_bareGet(cfg, op) ==
  [method |-> OpMethod(op), url |-> cfg.apiUrl \o OpPath(op),
   headers |-> (IF OpBody(cfg, op) = <<>> THEN <<>>
                ELSE <<(<<"Content-Type", "application/json">>)>>)
               \o <<(<<"Authorization", "Bearer " \o cfg.apiKey>>),
                    (<<"User-Agent", "@memoryrelay/mcp-server">>)>>,
   body |-> [present |-> OpBody(cfg, op) # <<>>, object |-> OpBody(cfg, op)]]

\* the request an attempt of the operation sends: fetch(url, {method, headers,
\* body, signal}); body is undefined when request() was handed none, and
\* otherwise the JSON text (SentBody) of the object held here
Request(cfg, op) ==
  [method |-> OpMethod(op), url |-> cfg.apiUrl \o OpPath(op),
   headers |-> <<(<<"Content-Type", "application/json">>),
                 (<<"Authorization", "Bearer " \o cfg.apiKey>>),
                 (<<"User-Agent", "@memoryrelay/mcp-server">>)>>,
   body |-> [present |-> OpBody(cfg, op) # <<>>, object |-> OpBody(cfg, op)]]

\* response.json(): the object a body of string literals parses to
ParsedBody(wire) ==
  LET
      \* JSON.parse of a string literal
      JSONUnquote(t) == UnescapeFrom(t, 2)
  IN
                    [i \in 1..Len(wire) |-> <<wire[i][1], JSONUnquote(wire[i][2])>>]

\* request() run to its end against the answers the network gives to its
\* successive attempts: the log entry of each attempt made
RECURSIVE Attempts(_, _, _, _)
Attempts(cfg, op, outcomes, n) ==
  LET a == AttemptFn(cfg, Head(outcomes))
      entry == [request |-> Request(cfg, op), outcome |-> Head(outcomes),
                result |-> a.result, waited |-> a.waited]
  IN IF withRetry(n, a.result, MAX_RETRIES) = "backoff"
     THEN <<entry>> \o Attempts(cfg, op, Tail(outcomes), n + 1)
     ELSE <<entry>>

\* how request() ended, given the entries of its attempts
RequestResult(entries) == entries[Len(entries)].result

ReturnedUndefined ==
  [kind |-> "return", value |-> <<>>, error |-> NoError, undefined |-> TRUE]

\* healthCheck without its catch block: the failure of request() leaves it
healthCheck_rethrows(req) ==
  IF req.kind = "return"
  THEN Returned(<<(<<"status", "healthy">>), (<<"message", "API connection successful">>)>>)
  ELSE req

\* healthCheck: never throws, reports how request() ended
healthCheck(req) ==
  IF req.kind = "return"
  THEN Returned(<<(<<"status", "healthy">>), (<<"message", "API connection successful">>)>>)
  ELSE Returned(<<(<<"status", "unhealthy">>),
                  (<<"message", "API connection failed: " \o req.error.message>>)>>)

\* the client method's outcome, given how request() ended
ClientOp(op, req) ==
  LET
      \* response.data of searchMemories: the array, or undefined when the body has
      \* no such member
      SearchData(body) ==
        LET
            \* a client method that resolved with an array, or with undefined
            ReturnedArray(items) ==
              [kind |-> "return", value |-> <<>>, error |-> NoError, array |-> items]
        IN
        IF \E i \in 1..Len(body) : body[i][1] = "data"
        THEN ReturnedArray(body[CHOOSE i \in 1..Len(body) : body[i][1] = "data"][2])
        ELSE ReturnedUndefined
  IN
  IF op.name = "healthCheck" THEN healthCheck(req)
  ELSE IF req.kind # "return" THEN req
  ELSE IF op.name = "searchMemories" THEN SearchData(req.value)
  ELSE IF op.name \in {"deleteMemory", "linkEntity", "deleteEntity"} THEN ReturnedUndefined
  ELSE req

----------------------------------------------------------------------------
(* The tool-call handler, from the client's outcome to its response *)

\* the object a case of the handler serialises, or what it throws on the way
ToolPayload(c, op) ==
  IF op.kind = "throw" THEN op
  ELSE IF c.name = "memory_search"
  THEN IF "array" \in DOMAIN op
       THEN Returned(<<Array("memories", op.array),
                       Raw("total", NumToString(Len(op.array)))>>)
       ELSE Thrown(TypeErrorReading("undefined", "length"))
  ELSE IF c.name = "memory_delete"
  THEN Returned(<<Raw("success", "true"), (<<"message", "Memory deleted successfully">>)>>)
  ELSE IF c.name = "entity_link"
  THEN Returned(<<Raw("success", "true"),
                  (<<"message", "Entity linked to memory successfully">>),
                  (<<"entity_id", Arg(c.args, "entity_id").str>>),
                  (<<"memory_id", Arg(c.args, "memory_id").str>>),
                  (<<"relationship",
                     Default(Arg(c.args, "relationship"), Str("mentioned_in")).str>>)>>)
  ELSE op

\* the catch block returning its payload without the isError mark
ErrorResponse_unmarked(e) ==
  [isError |-> FALSE,
   text |-> JSONstringify(
     <<(<<"error", "Tool execution failed">>),
       (<<"message", IF e.name = "ZodError" THEN "Validation error" ELSE e.message>>)>>
     \o (IF e.name = "ZodError" THEN <<Array("details", e.errors)>> ELSE <<>>))]

\* the catch block of the handler: the error payload, marked isError
ErrorResponse(e) ==
  [isError |-> TRUE,
   text |-> JSONstringify(
     <<(<<"error", "Tool execution failed">>),
       (<<"message", IF e.name = "ZodError" THEN "Validation error" ELSE e.message>>)>>
     \o (IF e.name = "ZodError" THEN <<Array("details", e.errors)>> ELSE <<>>))]

\* the CallToolRequestSchema handler's return value
ToolResponse(c, op) ==
  IF ToolPayload(c, op).kind = "return"
  THEN [isError |-> FALSE, text |-> JSONstringify(ToolPayload(c, op).value)]
  ELSE ErrorResponse(ToolPayload(c, op).error)

NoToolResponse == [isError |-> FALSE, text |-> ""]

----------------------------------------------------------------------------
(* The calls and the answers explored *)

ValidId == "550e8400-e29b-41d4-a716-446655440000"

\* 'x'.repeat(MAX_CONTENT_SIZE) and 'x'.repeat(MAX_CONTENT_SIZE + 1)
ExactMax == Repeat("x", MAX_CONTENT_SIZE)

OverMax == Repeat("x", MAX_CONTENT_SIZE + 1)

StoreCall == Call("memory_store", [content |-> Str("test content")])

HealthCall == Call("memory_health", <<>>)

\* the calls explored under each configuration: every call under the default
\* configuration, the plain memory_store under the others
CallsFor(cfg) ==
  LET
      ToolCalls ==
        LET
            UpperId == "FFFFFFFF-FFFF-FFFF-FFFF-FFFFFFFFFFFF"
            BadIds ==
              { "mem-123", "not-a-uuid", "550e8400e29b41d4a716446655440000",
                "g50e8400-e29b-41d4-a716-446655440000", "550e8400-e29b-41d4-a716-4466554400001", "" }
            StoreCalls ==
              { StoreCall,
                Call("memory_store", [content |-> Str(ExactMax)]),
                Call("memory_store", [content |-> Str(OverMax)]),
                Call("memory_store", [content |-> Num(123)]),
                Call("memory_store", <<>>),
                Call("memory_store", Undefined) }
            SearchCalls ==
              { Call("memory_search", [query |-> Str("test query")]),
                Call("memory_search", [query |-> Str("test query"), limit |-> Num(50)]),
                Call("memory_search", [query |-> Str("test query"), limit |-> Num(51)]),
                Call("memory_search", [query |-> Str("test query"), limit |-> Num(0)]),
                Call("memory_search", [query |-> Str("test query"), threshold |-> Num(2)]),
                Call("memory_search", [query |-> Str(ExactMax)]),
                Call("memory_search", [query |-> Str(OverMax)]) }
            ListCalls ==
              { Call("memory_list", <<>>),
                Call("memory_list", [limit |-> Num(100)]),
                Call("memory_list", [limit |-> Num(101)]),
                Call("memory_list", [offset |-> Num(0 - 1)]),
                Call("memory_list", Undefined) }
            IdCalls ==
              { Call(name, [id |-> Str(id), content |-> Str("updated content")]) :
                  name \in {"memory_get", "memory_update", "memory_delete"},
                  id \in {ValidId, UpperId} \cup BadIds }
              \cup { Call("memory_get", <<>>),
                     Call("memory_update", [id |-> Str(ValidId), content |-> Str(ExactMax)]),
                     Call("memory_update", [id |-> Str(ValidId), content |-> Str(OverMax)]) }
            EntityCalls ==
              { Call("entity_create", [name |-> Str(n), type |-> Str(t)]) :
                  n \in {"Alice", "<b>Bob & \"Eve\"</b>", "", Repeat("n", 200), Repeat("n", 201)},
                  t \in {"person", "robot"} }
              \cup { Call("entity_create", [name |-> Str("Alice")]),
                     Call("entity_create", Undefined) }
              \cup { Call("entity_link", [entity_id |-> Str(e), memory_id |-> Str(m)]) :
                       e \in {ValidId, "not-a-uuid"}, m \in {UpperId, "mem-123"} }
              \cup { Call("entity_link", [entity_id |-> Str(ValidId), memory_id |-> Str(ValidId),
                                          relationship |-> Str("created_by")]) }
            UnknownCalls == { Call("memory_purge", <<>>), Call("", Undefined) }
        IN
        StoreCalls \cup SearchCalls \cup ListCalls \cup IdCalls \cup EntityCalls
          \cup UnknownCalls \cup {HealthCall}
  IN
                 IF cfg = ClientConfig(PlainKey, 30000) THEN ToolCalls ELSE {StoreCall}

ClientCallsFor(cfg) ==
  LET
      \* methods of the client called without the handler, as the client's tests do
      ClientCalls ==
        { ClientCall(name, [id |-> Str(id), content |-> Str("updated content")]) :
            name \in {"getMemory", "updateMemory", "deleteMemory", "getEntity", "deleteEntity"},
            id \in {ValidId, "mem-123"} }
        \cup { ClientCall("listEntities", <<>>),
               ClientCall("storeMemory", [content |-> Str(OverMax)]),
               ClientCall("searchMemories", [query |-> Str(OverMax)]),
               ClientCall("updateMemory", [id |-> Str("mem-123"), content |-> Str(OverMax)]),
               ClientCall("createEntity", [name |-> Str(OverMax), type |-> Str("person")]),
               ClientCall("createEntity", [name |-> Str(ExactMax), type |-> Str("person")]) }
  IN
                       IF cfg = ClientConfig(PlainKey, 30000) THEN ClientCalls ELSE {}

ResponsesFor(cfg, c) ==
  LET
      \* the body `null`: JSON that is no object
      NullBody == [parses |-> TRUE, null |-> TRUE, value |-> <<>>]
      \* the answers explored for the calls other than StoreCall and HealthCall
      ProbeResponses ==
        { Response(200, "OK", NoHeader, JsonBody(<<(<<"id", "mem-123">>), (<<"content", "test">>)>>)),
          Response(200, "OK", NoHeader,
                   JsonBody(<<Array("data", <<(<<(<<"id", "mem-123">>), Raw("score", "0.9")>>)>>)>>)),
          Response(404, "Not Found", NoHeader, JsonBody(Message("Memory not found"))),
          Response(500, "Internal Server Error", NoHeader, JsonBody(<<>>)) }
      \* the methods that await request() and return nothing
      Discarding == {"deleteMemory", "deleteEntity", "linkEntity"}
      \* the answers explored for them: a 204 without body as well
      DiscardResponses == ProbeResponses \cup {Response(204, "No Content", NoHeader, NotJson)}
      Responses(apiKey) ==
        { Response(200, "OK", NoHeader, JsonBody(<<(<<"id", "mem-123">>), (<<"content", "test">>)>>)),
          Response(200, "OK", NoHeader,
                   JsonBody(<<(<<"id", "mem-123">>), (<<"content", "seen " \o apiKey>>)>>)),
          Response(204, "No Content", NoHeader, NotJson),
          Response(400, "Bad Request", NoHeader, JsonBody(Message("Invalid input"))),
          Response(401, "Unauthorized", NoHeader, JsonBody(Message("Key: " \o apiKey \o " failed"))),
          Response(403, "Forbidden", NoHeader, NotJson),
          Response(404, "Not Found", NoHeader, JsonBody(Message("Memory not found"))),
          Response(404, "Not Found", NoHeader, NullBody),
          Response(500, "Internal Server Error", NoHeader, JsonBody(<<>>)),
          Response(500, "Internal Server Error", NoHeader, JsonBody(Message("upstream returned 404"))),
          Response(429, "Too Many Requests", NoHeader, JsonBody(Message("Rate limited"))),
          Response(429, "Too Many Requests", Header("1"), JsonBody(Message("Rate limited"))),
          Response(429, "Too Many Requests", Header("4"), JsonBody(Message("Rate limited"))),
          Response(429, "Too Many Requests", Header("soon"), JsonBody(Message("Rate limited"))) }
  IN
  IF c \in {StoreCall, HealthCall} THEN Responses(cfg.apiKey)
  ELSE IF OpOf(c).name \in Discarding THEN DiscardResponses
  ELSE ProbeResponses

----------------------------------------------------------------------------
(* Actions *)

Init ==
  /\ config \in Configs
  /\ pc = "idle"
  /\ call = NoCall
  /\ attempt = 0
  /\ lastError = NoError
  /\ log = <<>>
  /\ backoffs = <<>>
  /\ reqResult = Pending
  /\ opResult = Pending
  /\ toolResult = NoToolResponse
  /\ maskArgs = NoMaskArgs
  /\ maskResult = NotCalled
  /\ sanitizeArg = ""
  /\ sanitizeResult = NotSanitized
  /\ env = NoEnv
  /\ proc = NotStarted
  /\ server = NoMemories
  /\ logged = NotLogged
  /\ tasks = <<>>
  /\ pending = {}
  /\ clock = 0

\* request() has ended with req: the client method completes and, under the
\* handler, the response is built
Finish(c, req) ==
  \E op \in {ClientOp(OpOf(c), req)} :
    /\ pc' = "done"
    /\ reqResult' = req
    /\ opResult' = op
    /\ toolResult' = IF c.via = "tool" THEN ToolResponse(c, op) ELSE toolResult

\* a tools/call request arrives: the handler validates, calls the client
\* method, which validates its input and enters withRetry
CallTool(c) ==
  /\ pc = "idle"
  /\ call' = c
  /\ IF ToolError(c) # NoError
     THEN /\ pc' = "done"
          /\ toolResult' = ErrorResponse(ToolError(c))
          /\ UNCHANGED <<reqResult, opResult>>
     ELSE IF LocalCheck(ToolOp(c)) # NoError
     THEN /\ pc' = "done"
          /\ opResult' = Thrown(LocalCheck(ToolOp(c)))
          /\ toolResult' = ToolResponse(c, Thrown(LocalCheck(ToolOp(c))))
          /\ UNCHANGED reqResult
     ELSE /\ pc' = "attempt"
          /\ UNCHANGED <<reqResult, opResult, toolResult>>
  /\ attempt' = 0
  /\ UNCHANGED <<config, lastError, log, backoffs, aside>>

\* a method of the client is called directly: it validates its input and
\* enters withRetry
CallClient(c) ==
  /\ pc = "idle"
  /\ call' = c
  /\ IF LocalCheck(c) # NoError
     THEN /\ pc' = "done"
          /\ opResult' = Thrown(LocalCheck(c))
     ELSE /\ pc' = "attempt"
          /\ UNCHANGED opResult
  /\ attempt' = 0
  /\ UNCHANGED <<config, lastError, log, backoffs, reqResult, toolResult, aside>>

\* an iteration of withRetry calls fn(): the attempt arms its abort timer and
\* sends the request
StartAttempt ==
  /\ pc = "attempt"
  /\ pc' = "inflight"
  /\ backoffs' = <<>>
  /\ UNCHANGED <<config, call, attempt, lastError, log, reqResult, opResult, toolResult,
               aside>>

\* the attempt's fetch is answered with outcome o: the rest of the attempt
\* runs and withRetry returns, rethrows or goes to sleep
Settle(o) ==
  \E a \in {AttemptFn(config, o)} :
  \E caught \in {IF a.result.kind = "throw" THEN a.result.error ELSE lastError} :
  \E next \in {withRetry(attempt, a.result, MAX_RETRIES)} :
    /\ log' = Append(log, [request |-> Request(config, OpOf(call)), outcome |-> o,
                           result |-> a.result, waited |-> a.waited])
    /\ lastError' = caught
    /\ IF next = "backoff"
       THEN /\ pc' = "backoff"
            /\ UNCHANGED <<reqResult, opResult, toolResult>>
       ELSE IF next = "throw"
       THEN Finish(call, Thrown(caught))
       ELSE Finish(call, a.result)
    /\ UNCHANGED <<config, call, attempt, backoffs, aside>>

FetchResponds(r) ==
  /\ pc = "inflight"
  /\ Settle(Responds(r))

FetchRejects(e) ==
  /\ pc = "inflight"
  /\ Settle(Rejects(e))

\* no response within config.timeout: the timer calls controller.abort()
FetchTimesOut ==
  /\ pc = "inflight"
  /\ Settle(Aborted)

\* the backoff sleep of withRetry, then the next iteration
Backoff(k) ==
  /\ pc = "backoff"
  /\ backoffs' = Append(backoffs, BackoffSleep(attempt, k))
  /\ attempt' = attempt + 1
  /\ pc' = "attempt"
  /\ UNCHANGED <<config, call, lastError, log, reqResult, opResult, toolResult,
               aside>>

Next ==
  \/ \E c \in CallsFor(config) : CallTool(c)
  \/ \E c \in ClientCallsFor(config) : CallClient(c)
  \/ StartAttempt
  \/ \E r \in ResponsesFor(config, call) : FetchResponds(r)
  \/ \E e \in NetworkErrors(config.apiKey) : FetchRejects(e)
  \/ FetchTimesOut
  \/ \E k \in 0..(JitterSamples - 1) : Backoff(k)

Spec == Init /\ [][Next]_vars

----------------------------------------------------------------------------
(* maskApiKey called on its own, as the security test-suite calls it *)

MaskInit ==
  LET
      MaskInputs ==
        LET
            UpperKey == "MEM_TEST_1234567890ABCDEF"
            \* messages without the secret k, with k once, with k several times, and
            \* messages that hold strings close to k
            MaskMessages(k) ==
              { "", "API request failed", "mem_test*** is masked",
                "API request failed: 401 Unauthorized with key " \o k,
                "Key: " \o k \o ", failed to authenticate " \o k,
                k, k \o k,
                "Headers: { Authorization: \"Bearer " \o k \o "\" }\n at request (/app/http.js:25:10)",
                "key " \o PlainKey \o " rejected",
                "key " \o UpperKey \o " rejected",
                "key mem_test_aaab4567890abcdef rejected",
                "key mem_test_aXb4567890abcdef rejected" }
            MaskSecrets ==
              LET
                  ShortKey == "mem_abc"
                  DotKey == "mem_test_a.b4567890abcdef"
              IN
              { Str(PlainKey), Str(PlusKey), Str(GroupKey), Str(DotKey), Str(ShortKey), Str(UpperKey),
                Str("mem_prod_e0affdcce0f3859b2ee691f6cfd73ff2"), Str(""), Undefined, Null }
        IN
                    { [message |-> m, apiKey |-> k] : k \in MaskSecrets, m \in {""} } \cup
                    UNION { { [message |-> m, apiKey |-> k] : m \in MaskMessages(k.str) } :
                            k \in MaskSecrets }
  IN
  /\ maskArgs \in MaskInputs
  /\ maskResult = NotCalled
  /\ config = ClientConfig(PlainKey, 30000)
  /\ pc = "idle"
  /\ call = NoCall
  /\ attempt = 0
  /\ lastError = NoError
  /\ log = <<>>
  /\ backoffs = <<>>
  /\ reqResult = Pending
  /\ opResult = Pending
  /\ toolResult = NoToolResponse
  /\ sanitizeArg = ""
  /\ sanitizeResult = NotSanitized
  /\ env = NoEnv
  /\ proc = NotStarted
  /\ server = NoMemories
  /\ logged = NotLogged
  /\ tasks = <<>>
  /\ pending = {}
  /\ clock = 0

Redact ==
  LET
      \* maskApiKey(message, apiKey) for any JavaScript value of apiKey: !apiKey
      \* holds for undefined and null as it does for ""
      MaskCall(message, apiKey) ==
        IF apiKey.type \in {"undefined", "null"} THEN Masked(message)
        ELSE maskApiKey(message, apiKey.str)
  IN
  /\ ~maskResult.called
  /\ maskResult' = [called |-> TRUE, result |-> MaskCall(maskArgs.message, maskArgs.apiKey)]
  /\ UNCHANGED <<config, pc, call, attempt, lastError, log, backoffs, reqResult, opResult,
                 toolResult, maskArgs, sanitizeArg, sanitizeResult, env, proc, server, loop>>

MaskNext == Redact

MaskSpec == MaskInit /\ [][MaskNext]_vars

----------------------------------------------------------------------------
(* sanitizeHtml called on its own, and the name entity_create then sends *)

MaxNameLen == 3

NameChars == {"&", "<", ">", "\"", "'", "/", ";", "a", "#"}

\* the strings handed to sanitizeHtml: every string over NameChars up to
\* MaxNameLen characters, and the payloads of the XSS tests
SanitizeInputs ==
  LET
      RECURSIVE NamesOfLen(_)
      NamesOfLen(n) ==
        IF n = 0 THEN {""} ELSE {c \o w : c \in NameChars, w \in NamesOfLen(n - 1)}
  IN
  UNION {NamesOfLen(n) : n \in 0..MaxNameLen}
    \cup { "<script>alert(\"XSS\")</script>",
           "This is a normal string with numbers 123 and punctuation!",
           "javascript:alert('XSS')",
           "Tom &amp; Jerry" }

SanitizeInit ==
  /\ sanitizeArg \in SanitizeInputs
  /\ sanitizeResult = NotSanitized
  /\ config = ClientConfig(PlainKey, 30000)
  /\ pc = "idle"
  /\ call = NoCall
  /\ attempt = 0
  /\ lastError = NoError
  /\ log = <<>>
  /\ backoffs = <<>>
  /\ reqResult = Pending
  /\ opResult = Pending
  /\ toolResult = NoToolResponse
  /\ maskArgs = NoMaskArgs
  /\ maskResult = NotCalled
  /\ env = NoEnv
  /\ proc = NotStarted
  /\ server = NoMemories
  /\ logged = NotLogged
  /\ tasks = <<>>
  /\ pending = {}
  /\ clock = 0

Sanitize ==
  LET
      \* the name member of the body entity_create hands to the client, "" when
      \* the handler refuses the call
      SentName(cfg, name) ==
        LET c == Call("entity_create", [name |-> Str(name), type |-> Str("person")])
        IN IF ToolError(c) # NoError THEN "" ELSE Field(OpBody(cfg, ToolOp(c)), "name").str
  IN
  /\ ~sanitizeResult.called
  /\ sanitizeResult' = [called |-> TRUE, output |-> sanitizeHtml(sanitizeArg),
                        sent |-> SentName(config, sanitizeArg)]
  /\ UNCHANGED <<config, pc, call, attempt, lastError, log, backoffs, reqResult, opResult,
                 toolResult, maskArgs, maskResult, sanitizeArg, env, proc, server, loop>>

SanitizeNext == Sanitize

SanitizeSpec == SanitizeInit /\ [][SanitizeNext]_vars

----------------------------------------------------------------------------
(* A memory stored and read back, against an API server that stores what *)
(* it is sent                                                            *)

MaxFlaky == 2

\* the memory the server makes of the body of a POST
NewMemory(held, sent) ==
  LET
      ServerIds == <<"550e8400-e29b-41d4-a716-446655440000">>
  IN
  <<(<<"id", ServerIds[Len(held) + 1]>>),
    (<<"content", Field(ParsedBody(sent), "content")>>),
    (<<"agent_id", Field(ParsedBody(sent), "agent_id")>>)>>

\* the server's answer to a request, as fetch resolves it
Serve(held, req, sent) ==
  LET
      \* the body the server writes for a memory: each member as a string literal
      Wire(memory) == [i \in 1..Len(memory) |-> <<memory[i][1], JSONQuote(memory[i][2])>>]
      \* the last segment of the path of a URL
      LastSegment(url) ==
        LET slashes == {i \in 1..Len(url) : Chr(url, i) = "/"}
            last == CHOOSE i \in slashes : \A j \in slashes : j <= i
        IN SubSeq(url, last + 1, Len(url))
  IN
  IF req.method = "POST"
  THEN Response(200, "OK", NoHeader, JsonBody(ParsedBody(Wire(NewMemory(held, sent)))))
  ELSE IF \E i \in 1..Len(held) : Field(held[i], "id") = LastSegment(req.url)
  THEN Response(200, "OK", NoHeader,
                JsonBody(ParsedBody(Wire(
                  held[CHOOSE i \in 1..Len(held) : Field(held[i], "id") = LastSegment(req.url)]))))
  ELSE Response(404, "Not Found", NoHeader, JsonBody(Message("Memory not found")))

\* k refused connections, then the server's answer
FlakyThen(cfg, k, response) ==
  [i \in 1..(k + 1) |->
     IF i <= k THEN Rejects(CHOOSE e \in NetworkErrors(cfg.apiKey) : TRUE)
     ELSE Responds(response)]

TripInit ==
  /\ config \in Configs
  /\ server = NoMemories
  /\ logged = NotLogged
  /\ tasks = <<>>
  /\ pending = {}
  /\ clock = 0
  /\ pc = "idle"
  /\ call = NoCall
  /\ attempt = 0
  /\ lastError = NoError
  /\ log = <<>>
  /\ backoffs = <<>>
  /\ reqResult = Pending
  /\ opResult = Pending
  /\ toolResult = NoToolResponse
  /\ maskArgs = NoMaskArgs
  /\ maskResult = NotCalled
  /\ sanitizeArg = ""
  /\ sanitizeResult = NotSanitized
  /\ env = NoEnv
  /\ proc = NotStarted

\* client.storeMemory(content), run to its end: k attempts are refused a
\* connection, the next one reaches the server, which stores the memory;
\* opResult is how storeMemory ended
TripStore(content, k) ==
  /\ pc = "idle"
  /\ \E c \in {ClientCall("storeMemory", [content |-> Str(content)])} :
     \E answer \in {Serve(server, Request(config, c), SentBody(config, c))} :
     \E entries \in {Attempts(config, c, FlakyThen(config, k, answer), 0)} :
       /\ call' = c
       /\ log' = log \o entries
       /\ server' = Append(server, NewMemory(server, SentBody(config, c)))
       /\ opResult' = ClientOp(c, RequestResult(entries))
       /\ pc' = "stored"
  /\ UNCHANGED <<config, attempt, lastError, backoffs, reqResult, toolResult, aside_trip>>

\* client.getMemory(memory.id) with the Memory storeMemory returned, run to
\* its end; reqResult is how getMemory ended
TripGet(k) ==
  /\ pc = "stored"
  /\ opResult.kind = "return"
  /\ \E c \in {ClientCall("getMemory", [id |-> Str(Field(opResult.value, "id"))])} :
     \E answer \in {Serve(server, Request(config, c), SentBody(config, c))} :
     \E entries \in {Attempts(config, c, FlakyThen(config, k, answer), 0)} :
       /\ log' = log \o entries
       /\ reqResult' = ClientOp(c, RequestResult(entries))
       /\ pc' = "done"
  /\ UNCHANGED <<config, call, attempt, lastError, backoffs, opResult, toolResult, server,
                 aside_trip>>

\* the contents stored
TripContents ==
  { "hello", "he said \"hi\"", "C:\\temp\\notes", "line one\nline two",
    "<b>Tom & Jerry</b>", "key " \o PlainKey, "error 404: \\n is not a newline" }

TripNext ==
  \/ \E content \in TripContents, k \in 0..MaxFlaky : TripStore(content, k)
  \/ \E k \in 0..MaxFlaky : TripGet(k)

RoundTripSpec == TripInit /\ [][TripNext]_vars

----------------------------------------------------------------------------
(* Startup: loadConfig, getAgentId and main *)

\* String.prototype.startsWith
StartsWith(s, prefix) ==
  Len(s) >= Len(prefix) /\ SubSeq(s, 1, Len(prefix)) = prefix

\* configSchema.parse: the issues of the ZodError, <<>> when the object passes
ConfigIssues(raw) ==
  LET
      \* the position of the first character of s, from i on, that is no slash
      RECURSIVE SkipSlashes(_, _)
      SkipSlashes(s, i) ==
        IF i <= Len(s) /\ Chr(s, i) \in {"/", "\\"} THEN SkipSlashes(s, i + 1) ELSE i
      \* the length of the scheme of a URL (the text before the first ':'), 0 when
      \* the text does not start with a scheme
      SchemeLength(s) ==
        LET
            Letters ==
              {Chr("abcdefghijklmnopqrstuvwxyzABCDEFGHIJKLMNOPQRSTUVWXYZ", i) : i \in 1..52}
        IN
        LET colons == {i \in 1..Len(s) : Chr(s, i) = ":"}
            c == IF colons = {} THEN 0 ELSE CHOOSE i \in colons : \A j \in colons : i <= j
        IN IF /\ c > 1
              /\ Chr(s, 1) \in Letters
              /\ \A i \in 2..(c - 1) : Chr(s, i) \in Letters \/ IsDigit(Chr(s, i))
                                         \/ Chr(s, i) \in {"+", "-", "."}
           THEN c - 1 ELSE 0
      LogLevels == {"debug", "info", "warn", "error"}
      \* the line loadConfig writes for an issue
      IssueLine(path, message) == "  - " \o path \o ": " \o message
      \* z.string().url(): new URL(s) does not throw; the text needs a scheme, and
      \* under a special scheme a host that is not empty
      IsUrl(s) ==
        LET
            SpecialSchemes == {"http", "https", "ws", "wss", "ftp"}
        IN
        /\ SchemeLength(s) > 0
        /\ SubSeq(s, 1, SchemeLength(s)) \in SpecialSchemes =>
             SkipSlashes(s, SchemeLength(s) + 2) <= Len(s)
  IN
  (IF raw.apiKey.type # "string" THEN <<IssueLine("apiKey", "Required")>>
   ELSE (IF StartsWith(raw.apiKey.str, "mem_") THEN <<>>
         ELSE <<IssueLine("apiKey", "API key must start with \"mem_\"")>>)
        \o (IF Len(raw.apiKey.str) >= 20 THEN <<>>
            ELSE <<IssueLine("apiKey", "API key appears to be invalid (too short)")>>))
  \o (IF raw.apiUrl.type # "string" \/ IsUrl(raw.apiUrl.str) THEN <<>>
      ELSE <<IssueLine("apiUrl", "API URL must be a valid URL")>>)
  \o (IF ~raw.hasTimeout THEN <<>>
      ELSE IF raw.timeout.nan
      THEN <<IssueLine("timeout", "Expected number, received nan")>>
      ELSE IF raw.timeout.n > 0 THEN <<>>
      ELSE <<IssueLine("timeout", "Timeout must be positive")>>)
  \o (IF raw.logLevel.type # "string" \/ raw.logLevel.str \in LogLevels THEN <<>>
      ELSE <<IssueLine("logLevel",
                       "Invalid enum value. Expected 'debug' | 'info' | 'warn' | 'error', received '"
                         \o raw.logLevel.str \o "'")>>)

\* loadConfig: the Config it returns or the Error it throws
loadConfig(e) ==
  LET
      ConfigHelp ==
        "Please check your environment variables:\n"
          \o "  - MEMORYRELAY_API_KEY (required, starts with \"mem_\")\n"
          \o "  - MEMORYRELAY_API_URL (optional, default: https://api.memoryrelay.net)\n"
          \o "  - MEMORYRELAY_AGENT_ID (optional, auto-detected)\n"
          \o "  - MEMORYRELAY_TIMEOUT (optional, default: 30000)\n"
          \o "  - MEMORYRELAY_LOG_LEVEL (optional, default: info)"
      \* the Config configSchema.parse returns, defaults filled in
      ParsedConfig(raw) ==
        [apiKey |-> raw.apiKey.str,
         apiUrl |-> IF raw.apiUrl.type = "string" THEN raw.apiUrl.str
                    ELSE "https://api.memoryrelay.net",
         agentId |-> raw.agentId,
         timeout |-> IF raw.hasTimeout THEN raw.timeout.n ELSE 30000,
         logLevel |-> IF raw.logLevel.type = "string" THEN raw.logLevel.str ELSE "info"]
      \* the object loadConfig hands to configSchema.parse
      RawConfig(e1) ==
        [apiKey |-> e1.MEMORYRELAY_API_KEY,
         apiUrl |-> e1.MEMORYRELAY_API_URL,
         agentId |-> e1.MEMORYRELAY_AGENT_ID,
         timeout |-> IF e1.MEMORYRELAY_TIMEOUT.type = "string" /\ e1.MEMORYRELAY_TIMEOUT.str # ""
                     THEN parseInt(e1.MEMORYRELAY_TIMEOUT.str) ELSE NaN,
         hasTimeout |-> e1.MEMORYRELAY_TIMEOUT.type = "string" /\ e1.MEMORYRELAY_TIMEOUT.str # "",
         logLevel |-> e1.MEMORYRELAY_LOG_LEVEL]
      \* issues.join('\n')
      RECURSIVE JoinLines(_)
      JoinLines(lines) ==
        IF lines = <<>> THEN ""
        ELSE IF Len(lines) = 1 THEN lines[1]
        ELSE lines[1] \o "\n" \o JoinLines(Tail(lines))
  IN
  IF ConfigIssues(RawConfig(e)) = <<>>
  THEN Returned(ParsedConfig(RawConfig(e)))
  ELSE Thrown(Err("Error", "Configuration validation failed:\n"
                             \o JoinLines(ConfigIssues(RawConfig(e))) \o "\n\n"
                             \o ConfigHelp))

\* the catch block of main with exit code 0
Fatal_exitsZero(error) ==
  [phase |-> "exited", exitCode |-> 0,
   stderr |-> <<"\n[x] Failed to start MemoryRelay MCP server\n", error.message,
                "\nFor help, see: https://github.com/memoryrelay/mcp-server#troubleshooting\n">>,
   config |-> <<>>, agentId |-> "", starts |-> 0, served |-> 0]

\* the catch block of main: what it prints with console.error (the cross
\* mark written [x]; the logger's own line, which carries a timestamp, is
\* left out), then process.exit(1)
Fatal(error) ==
  [phase |-> "exited", exitCode |-> 1,
   stderr |-> <<"\n[x] Failed to start MemoryRelay MCP server\n", error.message,
                "\nFor help, see: https://github.com/memoryrelay/mcp-server#troubleshooting\n">>,
   config |-> <<>>, agentId |-> "", starts |-> 0, served |-> 0]

MaxServed == 2

StartInit ==
  LET
      Envs ==
        LET
            EnvKeys == {Undefined, Str(PlainKey), Str("invalid_key_1234567890"), Str("mem_short")}
            EnvUrls ==
              {Undefined, Str("https://custom.api.example.com"), Str("not-a-url"), Str("https://")}
            EnvAgents == {Undefined, Str("test-agent"), Str("")}
            EnvTimeouts ==
              {Undefined, Str("60000"), Str("-1000"), Str("0"), Str("abc"), Str("30s"), Str("")}
            EnvLevels == {Undefined, Str("debug"), Str("invalid")}
            EnvNames == {Undefined, Str("jarvis")}
            EnvHosts == {Undefined, Str("very-long-hostname"), Str("box")}
        IN
        { [MEMORYRELAY_API_KEY |-> k, MEMORYRELAY_API_URL |-> u, MEMORYRELAY_AGENT_ID |-> a,
           MEMORYRELAY_TIMEOUT |-> t, MEMORYRELAY_LOG_LEVEL |-> l, OPENCLAW_AGENT_NAME |-> n,
           HOSTNAME |-> h] :
            k \in EnvKeys, u \in EnvUrls, a \in EnvAgents, t \in EnvTimeouts, l \in EnvLevels,
            n \in EnvNames, h \in EnvHosts }
  IN
  /\ env \in Envs
  /\ proc = NotStarted
  /\ config = ClientConfig(PlainKey, 30000)
  /\ pc = "idle"
  /\ call = NoCall
  /\ attempt = 0
  /\ lastError = NoError
  /\ log = <<>>
  /\ backoffs = <<>>
  /\ reqResult = Pending
  /\ opResult = Pending
  /\ toolResult = NoToolResponse
  /\ maskArgs = NoMaskArgs
  /\ maskResult = NotCalled
  /\ sanitizeArg = ""
  /\ sanitizeResult = NotSanitized
  /\ server = NoMemories
  /\ logged = NotLogged
  /\ tasks = <<>>
  /\ pending = {}
  /\ clock = 0

\* main() up to its await of server.start(): the configuration is loaded,
\* the agent id found and the server and its client constructed, or the
\* catch block ends the process
Main ==
  LET
      \* getAgentId: the configured id, or one made from process.env.HOSTNAME
      getAgentId(cfg, e) ==
        LET
            \* String.prototype.slice(0, n)
            Slice0(s, n) == SubSeq(s, 1, Min(n, Len(s)))
        IN
        IF cfg.agentId.type = "string" /\ cfg.agentId.str # "" THEN cfg.agentId.str
        ELSE "agent-" \o Slice0(IF e.HOSTNAME.type = "string" /\ e.HOSTNAME.str # ""
                                THEN e.HOSTNAME.str ELSE "unknown", 8)
  IN
  /\ proc.phase = "init"
  /\ \E loaded \in {loadConfig(env)} :
       IF loaded.kind = "throw"
       THEN /\ proc' = Fatal(loaded.error)
            /\ UNCHANGED config
       ELSE /\ proc' = [proc EXCEPT !.phase = "starting", !.config = loaded.value,
                                   !.agentId = getAgentId(loaded.value, env),
                                   !.starts = 1]
            /\ config' = [apiKey |-> loaded.value.apiKey, apiUrl |-> loaded.value.apiUrl,
                          agentId |-> getAgentId(loaded.value, env),
                          timeout |-> loaded.value.timeout]
  /\ UNCHANGED <<pc, call, attempt, lastError, log, backoffs, reqResult, opResult,
                 toolResult, maskArgs, maskResult, sanitizeArg, sanitizeResult, env, server, loop>>

\* server.connect(transport) resolves: the process stays alive and serves
TransportConnects ==
  /\ proc.phase = "starting"
  /\ proc' = [proc EXCEPT !.phase = "running"]
  /\ UNCHANGED <<config, pc, call, attempt, lastError, log, backoffs, reqResult, opResult,
                 toolResult, maskArgs, maskResult, sanitizeArg, sanitizeResult, env, server, loop>>

\* server.connect(transport) rejects: the catch block of main
TransportFails(e) ==
  /\ proc.phase = "starting"
  /\ proc' = [Fatal(e) EXCEPT !.config = proc.config, !.agentId = proc.agentId,
                              !.starts = proc.starts]
  /\ UNCHANGED <<config, pc, call, attempt, lastError, log, backoffs, reqResult, opResult,
                 toolResult, maskArgs, maskResult, sanitizeArg, sanitizeResult, env, server, loop>>

\* a tools/call request is served while the process runs: the handler
\* returns its response, an error result when the tool failed
ServeTool(c, op) ==
  /\ proc.phase = "running"
  /\ proc.served < MaxServed
  /\ proc' = [proc EXCEPT !.served = @ + 1]
  /\ call' = c
  /\ toolResult' = IF ToolError(c) # NoError THEN ErrorResponse(ToolError(c))
                   ELSE ToolResponse(c, op)
  /\ UNCHANGED <<config, pc, attempt, lastError, log, backoffs, reqResult, opResult,
                 maskArgs, maskResult, sanitizeArg, sanitizeResult, env, server, loop>>

\* SIGINT or SIGTERM: process.exit(0)
Signal ==
  /\ proc.phase = "running"
  /\ proc' = [proc EXCEPT !.phase = "exited", !.exitCode = 0]
  /\ UNCHANGED <<config, pc, call, attempt, lastError, log, backoffs, reqResult, opResult,
                 toolResult, maskArgs, maskResult, sanitizeArg, sanitizeResult, env, server, loop>>

\* the failures of server.connect(transport)
TransportErrors == { Err("Error", "Transport closed"), Err("Error", "stdin is not readable") }

\* how the client operation behind a served tool call ended
ServedOutcomes ==
  { Returned(<<(<<"id", "mem-123">>), (<<"content", "test">>)>>),
    Thrown(Err("Error", "API request failed: 500 Internal Server Error")) }

StartNext ==
  \/ Main
  \/ TransportConnects
  \/ \E e \in TransportErrors : TransportFails(e)
  \/ \E c \in {StoreCall, Call("memory_purge", <<>>)}, op \in ServedOutcomes : ServeTool(c, op)
  \/ Signal

StartSpec == StartInit /\ [][StartNext]_vars

----------------------------------------------------------------------------
(* The logger called on its own, as the security verification script calls it *)

\* the characters of [a-zA-Z0-9_-]
KeyChars ==
  LET text == "abcdefghijklmnopqrstuvwxyzABCDEFGHIJKLMNOPQRSTUVWXYZ0123456789_-"
  IN {Chr(text, i) : i \in 1..Len(text)}

\* s has the text t at position i
At(s, i, t) == i + Len(t) - 1 <= Len(s) /\ SubSeq(s, i, i + Len(t) - 1) = t

\* the end of the match of one of the three expressions of sanitize that
\* starts at position i of s, 0 when none starts there
\*   "key"   /mem_[a-zA-Z0-9_-]+/
\*   "path"  /\/[a-zA-Z0-9_\-./]+\.(ts|js|json)/  (a match that ends in .json
\*           ends at .js: the alternative js is tried first)
\*   "stack" /at\s+[^\s]+\s+\([^)]+\)/
MatchEnd(kind, s, i) ==
  LET
      \* the end of the longest run of characters of s from position i on that are
      \* in chars (that are not in chars when negated), i - 1 when the run is empty
      SpanEnd(s1, i1, chars1, negated1) ==
        LET stops == {j \in i1..Len(s1) : (Chr(s1, j) \in chars1) = negated1}
        IN IF stops = {} THEN Len(s1) ELSE (CHOOSE j \in stops : \A k \in stops : j <= k) - 1
  IN
  LET Whitespace == {" ", "\n", "\t"}
      PathChars == (KeyChars \cup {".", "/"})
  IN
  CASE kind = "key" ->
         IF At(s, i, "mem_") /\ SpanEnd(s, i + 4, KeyChars, FALSE) >= i + 4
         THEN SpanEnd(s, i + 4, KeyChars, FALSE) ELSE 0
    [] kind = "path" ->
         IF ~At(s, i, "/") THEN 0
         ELSE LET run == SpanEnd(s, i + 1, PathChars, FALSE)
                  ends == {e \in (i + 4)..run : At(s, e - 2, ".ts") \/ At(s, e - 2, ".js")}
              IN IF ends = {} THEN 0 ELSE CHOOSE e \in ends : \A k \in ends : k <= e
    [] OTHER ->
         IF ~At(s, i, "at") THEN 0
         ELSE LET w1 == SpanEnd(s, i + 2, Whitespace, FALSE)
                  t == SpanEnd(s, w1 + 1, Whitespace, TRUE)
                  w2 == SpanEnd(s, t + 1, Whitespace, FALSE)
                  inner == SpanEnd(s, w2 + 2, {")"}, TRUE)
              IN IF /\ w1 >= i + 2 /\ t >= w1 + 1 /\ w2 >= t + 1 /\ At(s, w2 + 1, "(")
                    /\ inner >= w2 + 2 /\ At(s, inner + 1, ")")
                 THEN inner + 1 ELSE 0

\* Logger.sanitize
sanitize(message) ==
  LET
      \* String.prototype.replace(/.../g, r) from position i on: every match, from
      \* left to right, none overlapping the one before
      RECURSIVE ReplaceMatches(_, _, _, _)
      ReplaceMatches(kind, s, r, i) ==
        LET hits == {j \in i..Len(s) : MatchEnd(kind, s, j) > 0}
        IN IF hits = {} THEN SubSeq(s, i, Len(s))
           ELSE LET j == CHOOSE h \in hits : \A k \in hits : h <= k
                IN SubSeq(s, i, j - 1) \o r \o ReplaceMatches(kind, s, r, MatchEnd(kind, s, j) + 1)
  IN
  ReplaceMatches("stack",
    ReplaceMatches("path", ReplaceMatches("key", message, "mem_****", 1), "<file>", 1),
    "at <location>", 1)

(* Bound of the model: the texts logged are made of at most MaxPieces pieces *)
MaxPieces == 3

RECURSIVE TextsOf(_)
TextsOf(n) ==
  LET
      \* the pieces the texts logged are made of: key prefixes, key characters,
      \* paths, stack frames and what separates them
      Pieces ==
        { "mem_", "mem_prod_abc789", "k", "*", " ", "/src/index", ".ts", "at foo",
          " (/x.js:1)", " (c)" }
  IN
  IF n = 0 THEN {""} ELSE {t \o p : t \in TextsOf(n - 1), p \in Pieces \cup {""}}

NoData == [present |-> FALSE, object |-> <<>>]

LogInit ==
  /\ config = ClientConfig(PlainKey, 30000)
  /\ pc = "idle"
  /\ call = NoCall
  /\ attempt = 0
  /\ lastError = NoError
  /\ log = <<>>
  /\ backoffs = <<>>
  /\ reqResult = Pending
  /\ opResult = Pending
  /\ toolResult = NoToolResponse
  /\ maskArgs = NoMaskArgs
  /\ maskResult = NotCalled
  /\ sanitizeArg = ""
  /\ sanitizeResult = NotSanitized
  /\ env = NoEnv
  /\ proc = NotStarted
  /\ server = NoMemories
  /\ logged = NotLogged
  /\ tasks = <<>>
  /\ pending = {}
  /\ clock = 0

\* logger.debug / info / warn / error of a Logger made with new Logger(min):
\* console.error(this.format(level, message, data)) when the level is not
\* below the logger's
LogCall(min, level, message, data) ==
  LET
      \* LOG_LEVELS
      LOG_LEVELS == [debug |-> 0, info |-> 1, warn |-> 2, error |-> 3]
      \* Logger.format; the timestamp is that of the call
      format(level1, message1, data1, timestamp1) ==
        LET upper == CASE level1 = "debug" -> "DEBUG" [] level1 = "info" -> "INFO"
                       [] level1 = "warn" -> "WARN" [] OTHER -> "ERROR"
        IN "[" \o timestamp1 \o "] [" \o upper \o "] " \o sanitize(message1)
             \o (IF data1.present THEN "\n" \o sanitize(JSONstringify(data1.object)) ELSE "")
  IN
  /\ ~logged.called
  /\ logged' = [called |-> TRUE, level |-> level, message |-> message, data |-> data,
                line |-> IF LOG_LEVELS[min] <= LOG_LEVELS[level]
                         THEN format(level, message, data, "2026-02-12T10:00:00.000Z")
                         ELSE ""]
  /\ UNCHANGED <<config, pc, call, attempt, lastError, log, backoffs, reqResult, opResult,
                 toolResult, maskArgs, maskResult, sanitizeArg, sanitizeResult, env, proc,
                 server, tasks, pending, clock>>

LogNext ==
  \/ \E min \in {"debug", "warn"}, level \in {"info", "error"},
        message \in TextsOf(MaxPieces) :
       LogCall(min, level, message, NoData)
  \/ \E level \in {"info", "error"}, value \in TextsOf(MaxPieces - 1) :
       LogCall("info", level, "Configuration loaded",
               [present |-> TRUE, object |-> <<(<<"apiKey", value>>)>>])

LogSpec == LogInit /\ [][LogNext]_vars

----------------------------------------------------------------------------
(* Operations running concurrently on one client: the event loop with the  *)
(* abort timer of each attempt, the rate-limit waits and the backoff sleeps *)

(* Bound of the model: the fetches started by all operations together *)
MaxFetches == 4

TaskIds == {"first", "second"}

\* const controller = new AbortController(): one for each call of the
\* function request() hands to withRetry
ControllerOf(id, n) == <<id, n>>

\* what the network may do with the next fetch: once MaxFetches fetches have
\* been started it answers 200
OutcomesNow ==
  LET
      \* the fetches started so far
      Fetches == Len(tasks["first"].log) + Len(tasks["second"].log)
      \* what the network does with a fetch
      LoopOutcomes ==
        { Responds(Response(200, "OK", NoHeader, JsonBody(<<(<<"id", "mem-123">>)>>))),
          Responds(Response(500, "Internal Server Error", NoHeader, JsonBody(<<>>))),
          Responds(Response(429, "Too Many Requests", Header("60"), JsonBody(<<>>))),
          Rejects(Err("TypeError", "fetch failed")),
          Aborted }
  IN
  IF Fetches < MaxFetches THEN LoopOutcomes
  ELSE {Responds(Response(200, "OK", NoHeader, JsonBody(<<(<<"id", "mem-123">>)>>)))}

\* the function handed to withRetry is called: the abort timer is armed and
\* the fetch sent; o is what the network will do with it
Armed(id, n, o, now) ==
  LET \* the time a response takes to arrive (ms), shorter than every timeout
      Latency == 100
  IN
  {[kind |-> "abort", task |-> id, attempt |-> n, controller |-> ControllerOf(id, n),
    due |-> now + config.timeout, outcome |-> Aborted]}
    \cup (IF o.kind = "abort" THEN {}
          ELSE {[kind |-> "answer", task |-> id, attempt |-> n,
                 controller |-> ControllerOf(id, n), due |-> now + Latency, outcome |-> o]})

Fetching(t, id, n, now) ==
  [t EXCEPT !.pc = "fetching", !.attempt = n, !.signal = ControllerOf(id, n),
            !.log = Append(t.log, [outcome |-> Aborted, result |-> Pending, start |-> now,
                                   answered |-> now, end |-> now, timerFired |-> FALSE,
                                   abortedBy |-> <<>>])]

\* finally { clearTimeout(timeout) } with the finally clause left out
Cleared_never(events, id, n) == events

\* finally { clearTimeout(timeout) }: the attempt's timer, if still armed
Cleared(events, id, n) ==
  {e \in events : ~(e.kind = "abort" /\ e.task = id /\ e.attempt = n)}

\* for (let attempt = 0; ...; attempt++) shared by the operations of a client
NextAttempt_shared(ts, id) ==
  1 + (CHOOSE n \in {ts[i].attempt : i \in TaskIds} : \A i \in TaskIds : ts[i].attempt <= n)

\* for (let attempt = 0; ...; attempt++): the loop variable of this call of withRetry
NextAttempt(ts, id) == ts[id].attempt + 1

\* the attempt of task id ends at time now, its fetch having ended with o:
\* the rest of the function runs, then the iteration of withRetry
EndAttempt(id, o, by, fired, k) ==
  \E now \in {fired.due} :
  \E a \in {AttemptFn(config, o)} :
  \E next \in {withRetry(tasks[id].attempt, a.result, MAX_RETRIES)} :
  \E entry \in {[tasks[id].log[Len(tasks[id].log)] EXCEPT
                   !.outcome = o, !.result = a.result, !.end = now, !.abortedBy = by]} :
  \E t \in {[tasks[id] EXCEPT
               !.log[Len(tasks[id].log)] = entry,
               !.lastError = IF a.result.kind = "throw" THEN a.result.error ELSE @]} :
    /\ clock' = now
    /\ IF next = "backoff"
       THEN /\ tasks' = [tasks EXCEPT ![id] =
                           [t EXCEPT !.pc = "sleeping",
                                     !.slept = @ + BackoffSleep(t.attempt, k).ms]]
            /\ pending' = Cleared(pending \ {fired}, id, t.attempt)
                            \cup {[kind |-> "backoff", task |-> id, attempt |-> t.attempt,
                                   controller |-> <<>>,
                                   due |-> now + BackoffSleep(t.attempt, k).ms,
                                   outcome |-> Aborted]}
       ELSE /\ tasks' = [tasks EXCEPT ![id] =
                           [t EXCEPT !.pc = "done", !.ended = now,
                                     !.result = IF next = "throw" THEN Thrown(t.lastError)
                                                ELSE a.result]]
            /\ pending' = Cleared(pending \ {fired}, id, t.attempt)

\* the event the loop runs next: none is due before it
Due(e) == e \in pending /\ \A f \in pending : e.due <= f.due

LoopInit ==
  LET
      \* an operation not called yet
      IdleTask ==
        [pc |-> "idle", op |-> NoCall, attempt |-> 0, lastError |-> NoError, signal |-> <<>>,
         log |-> <<>>, slept |-> 0, started |-> 0, ended |-> 0, result |-> Pending]
  IN
  /\ config \in {ClientConfig(PlainKey, 4000), ClientConfig(GroupKey, 30000)}
  /\ pc = "idle"
  /\ call = NoCall
  /\ attempt = 0
  /\ lastError = NoError
  /\ log = <<>>
  /\ backoffs = <<>>
  /\ reqResult = Pending
  /\ opResult = Pending
  /\ toolResult = NoToolResponse
  /\ maskArgs = NoMaskArgs
  /\ maskResult = NotCalled
  /\ sanitizeArg = ""
  /\ sanitizeResult = NotSanitized
  /\ env = NoEnv
  /\ proc = NotStarted
  /\ server = NoMemories
  /\ logged = NotLogged
  /\ tasks = [id \in TaskIds |-> IdleTask]
  /\ pending = {}
  /\ clock = 0

still == <<config, pc, call, attempt, lastError, log, backoffs, reqResult, opResult,
           toolResult, maskArgs, maskResult, sanitizeArg, sanitizeResult, env, proc,
           server, logged>>

\* a method of the client is called while another may be running: request()
\* enters withRetry, whose first iteration starts the first attempt
Begin(id, o) ==
  LET
      \* the calls made, one by each operation
      LoopCalls ==
        [i \in TaskIds |->
           IF i = "first" THEN ClientCall("storeMemory", [content |-> Str("test content")])
           ELSE ClientCall("getMemory", [id |-> Str(ValidId)])]
  IN
  /\ tasks[id].pc = "idle"
  /\ tasks' = [tasks EXCEPT ![id] =
                 Fetching([tasks[id] EXCEPT !.op = LoopCalls[id], !.started = clock],
                          id, 0, clock)]
  /\ pending' = pending \cup Armed(id, 0, o, clock)
  /\ UNCHANGED <<clock, still>>

\* the response of a fetch arrives: a 429 starts the rate-limit wait, with
\* the abort timer still armed; any other answer ends the attempt
Answer(e, k) ==
  /\ Due(e) /\ e.kind = "answer"
  /\ IF e.outcome.kind = "response" /\ e.outcome.response.status = 429
     THEN /\ clock' = e.due
          /\ tasks' = [tasks EXCEPT ![e.task].pc = "waiting",
                                    ![e.task].log[Len(tasks[e.task].log)].outcome = e.outcome,
                                    ![e.task].log[Len(tasks[e.task].log)].answered = e.due]
          /\ pending' = (pending \ {e})
               \cup {[e EXCEPT !.kind = "wait",
                               !.due = e.due + AttemptFn(config, e.outcome).waited[1].ms]}
     ELSE EndAttempt(e.task, e.outcome, <<>>, e, k)
  /\ UNCHANGED still

\* the abort timer of an attempt fires: controller.abort() rejects the fetch
\* that holds the controller's signal, if it is still pending
AbortFires(e, k) ==
  /\ Due(e) /\ e.kind = "abort"
  /\ IF \E id \in TaskIds : tasks[id].pc = "fetching" /\ tasks[id].signal = e.controller
     THEN \E id \in {i \in TaskIds : tasks[i].pc = "fetching" /\ tasks[i].signal = e.controller} :
            EndAttempt(id, Aborted, e.controller, e, k)
     ELSE /\ clock' = e.due
          /\ pending' = pending \ {e}
          /\ tasks' = [id \in TaskIds |->
                         IF tasks[id].signal = e.controller /\ tasks[id].pc = "waiting"
                         THEN [tasks[id] EXCEPT !.log[Len(tasks[id].log)].timerFired = TRUE]
                         ELSE tasks[id]]
  /\ UNCHANGED still

\* the rate-limit wait is over: throw new Error('Rate limited: ...')
WaitEnds(e, k) ==
  /\ Due(e) /\ e.kind = "wait"
  /\ EndAttempt(e.task, e.outcome, <<>>, e, k)
  /\ UNCHANGED still

\* the backoff sleep is over: the next iteration of withRetry starts the next
\* attempt
BackoffEnds(e, o) ==
  /\ Due(e) /\ e.kind = "backoff"
  /\ clock' = e.due
  /\ tasks' = [tasks EXCEPT ![e.task] =
                 Fetching(tasks[e.task], e.task, NextAttempt(tasks, e.task), e.due)]
  /\ pending' = (pending \ {e}) \cup Armed(e.task, NextAttempt(tasks, e.task), o, e.due)
  /\ UNCHANGED still

\* k is Math.random() on the grid of JitterSamples, here at its least
LoopNext ==
  \/ \E id \in TaskIds, o \in OutcomesNow : Begin(id, o)
  \/ \E e \in pending, k \in {0} : Answer(e, k)
  \/ \E e \in pending, k \in {0} : AbortFires(e, k)
  \/ \E e \in pending, k \in {0} : WaitEnds(e, k)
  \/ \E e \in pending, o \in OutcomesNow : BackoffEnds(e, o)

LoopSpec == LoopInit /\ [][LoopNext]_vars

----------------------------------------------------------------------------
(* Properties *)

NonRetryStatuses == {400, 401, 403, 404}

\* the HTTP status that answered attempt i, 0 when no response arrived
StatusOf(i) == log[i].outcome.response.status

Failed(i) == log[i].result.kind = "throw"

\* attempt i was the operation's last: request() ended right after it
EndedAt(i) == i = Len(log) /\ pc = "done"

\* the time slept between the answer to attempt i and the start of attempt
\* i + 1, read while attempt i + 1 is about to start
RECURSIVE SumMs(_)
SumMs(timers) == IF timers = <<>> THEN 0 ELSE Head(timers).ms + SumMs(Tail(timers))

PauseAfter(i) == SumMs(log[i].waited) + SumMs(backoffs)

\* C1: an operation whose network attempt is answered with 400, 401, 403 or
\* 404 makes exactly one network attempt, takes no backoff sleep and raises a
\* failure whose message contains that status code.
C1_ClientErrorNotRetried ==
  (Len(log) >= 1 /\ StatusOf(1) \in NonRetryStatuses) =>
    /\ Len(log) = 1
    /\ pc = "done"
    /\ attempt = 0
    /\ backoffs = <<>>
    /\ reqResult.kind = "throw"
    /\ Includes(reqResult.error.message, NumToString(StatusOf(1)))

C3_RetriedUntilSuccess ==
  \A k \in 1..3 :
    (Len(log) >= k /\ \A i \in 1..k : StatusOf(i) = 500) =>
      /\ ~EndedAt(k)
      /\ (Len(log) > k /\ Ok(log[k + 1].outcome.response)) =>
           /\ EndedAt(k + 1)
           /\ reqResult = Returned(log[k + 1].outcome.response.body.value)

\* C4: a failure is non-retryable if and only if its status code is 400, 401,
\* 403 or 404; every other failure is re-attempted while the budget of 4
\* attempts lasts, whatever text the failure message carries.
C4_NonRetryableIffStatus ==
  \A i \in 1..Len(log) :
    Failed(i) =>
      IF StatusOf(i) \in NonRetryStatuses THEN EndedAt(i)
      ELSE i < 4 => ~EndedAt(i)

\* C5: an attempt answered with 429 is a retryable failure: while attempts
\* remain another attempt follows, whatever the Retry-After header.
C5_RateLimitRetried ==
  \A i \in 1..Len(log) : (StatusOf(i) = 429 /\ i < 4) => ~EndedAt(i)

\* C6: an attempt cut off by the timeout raises a timeout failure carrying the
\* configured duration, and is re-attempted while attempts remain, for every
\* configured timeout.
C6_TimeoutRetried ==
  \A i \in 1..Len(log) :
    log[i].outcome.kind = "abort" =>
      /\ log[i].result.kind = "throw"
      /\ log[i].result.error.message
           = "Request timeout after " \o NumToString(config.timeout) \o "ms"
      /\ i < 4 => ~EndedAt(i)

IsNumber(v) == v # "" /\ \A j \in 1..Len(v) : IsDigit(Chr(v, j))

\* C7: on a 429 the executor waits Retry-After * 1000 ms when the header
\* carries a number of seconds, and exactly 5000 ms when the header is absent
\* or cannot be parsed as a number.
C7_RateLimitWait ==
  \A i \in 1..Len(log) :
    StatusOf(i) = 429 =>
      /\ Len(log[i].waited) = 1
      /\ log[i].waited[1].ms =
           (IF log[i].outcome.response.retryAfter.present
                 /\ IsNumber(log[i].outcome.response.retryAfter.value)
            THEN ParseDigits(log[i].outcome.response.retryAfter.value, 1, 0) * 1000
            ELSE 5000)

RetryAfterOne(i) ==
  StatusOf(i) = 429 /\ log[i].outcome.response.retryAfter = Header("1")

C9_NoKeyInFailureMessage ==
  /\ \A i \in 1..Len(log) :
       Failed(i) => ~Includes(log[i].result.error.message, config.apiKey)
  /\ reqResult.kind = "throw" => ~Includes(reqResult.error.message, config.apiKey)

\* C10: no value returned to a caller (the operation's result or failure, the
\* tool call's payload) contains the configured API key.
C10_NoKeyInReturnedValue ==
  pc = "done" =>
    /\ ~Includes(toolResult.text, config.apiKey)
    /\ opResult.kind = "return" => ~Includes(JSONstringify(opResult.value), config.apiKey)
    /\ opResult.kind = "throw" => ~Includes(opResult.error.message, config.apiKey)

----------------------------------------------------------------------------
(* Properties of maskApiKey called on its own, under MaskSpec *)

\* the call was made with a secret that is a non-empty string
SecretGiven ==
  maskResult.called /\ maskArgs.apiKey.type = "string" /\ maskArgs.apiKey.str # ""

\* C11: for any secret k and any message that contains k at least once, the
\* redacted message contains no occurrence of k and at least one occurrence
\* of the first 8 characters of k followed by "***".
C11_EveryOccurrenceMasked ==
  (SecretGiven /\ Includes(maskArgs.message, maskArgs.apiKey.str)) =>
    /\ ~maskResult.result.threw
    /\ ~Includes(maskResult.result.message, maskArgs.apiKey.str)
    /\ Includes(maskResult.result.message, Substring0(maskArgs.apiKey.str, 8) \o "***")

\* C12: for every message and every non-empty secret that does not occur
\* literally (case-sensitively) in the message, the redactor returns the
\* message unchanged and does not throw.
C12_AbsentSecretLeavesMessage ==
  (SecretGiven /\ ~Includes(maskArgs.message, maskArgs.apiKey.str)) =>
    maskResult.result = Masked(maskArgs.message)

\* C13: for an empty, undefined or null secret the redactor returns the
\* message unchanged, whatever the message.
C13_NoSecretIsIdentity ==
  (maskResult.called /\ ~SecretGiven) => maskResult.result = Masked(maskArgs.message)

\* C13 witness: a message that names a key was passed with a null secret and
\* came back.
C13_Witness ==
  /\ maskResult.called
  /\ maskArgs.apiKey = Null
  /\ Includes(maskArgs.message, PlainKey)
  /\ maskResult.result.message = maskArgs.message

----------------------------------------------------------------------------
(* Properties of local validation and dispatch, under Spec *)

\* a call has been made and its client method was entered
ClientEntered == pc # "idle" /\ (call.via = "client" \/ ToolError(call) = NoError)

SizeGuarded == {"storeMemory", "searchMemories", "updateMemory", "createEntity"}

\* the parameter of the client method that validateContentSize is given
SizedArg(op) ==
  CASE op.name = "searchMemories" -> op.args.query
    [] op.name = "createEntity" -> op.args.name
    [] OTHER -> op.args.content

\* the client method failed before request() was entered
FailedLocally ==
  /\ pc = "done"
  /\ opResult.kind = "throw"
  /\ reqResult = Pending
  /\ log = <<>>
  /\ attempt = 0
  /\ backoffs = <<>>

IdOps == {"getMemory", "updateMemory", "deleteMemory", "getEntity", "deleteEntity"}

\* C15: every network request whose path carries an identifier carries a
\* syntactically valid UUID; a client method called with a malformed id
\* fails before any network attempt.
C15_PathIdIsUuid ==
  (ClientEntered /\ OpOf(call).name \in IdOps /\ ~IsUuid(OpOf(call).args.id)) =>
    FailedLocally

\* a tool call the handler's own validation refuses
RefusedByHandler ==
  /\ pc # "idle"
  /\ call.via = "tool"
  /\ \/ /\ call.name \in {"memory_get", "memory_update", "memory_delete"}
        /\ ~IsUuid(IF call.args = Undefined THEN Undefined ELSE Arg(call.args, "id"))
     \/ /\ call.name = "entity_link"
        /\ \/ call.args = Undefined
           \/ ~IsUuid(Arg(call.args, "entity_id"))
           \/ ~IsUuid(Arg(call.args, "memory_id"))
     \/ /\ call.name = "entity_create"
        /\ \/ call.args = Undefined
           \/ Arg(call.args, "name").type # "string"
           \/ Len(Arg(call.args, "name").str) = 0
           \/ Len(Arg(call.args, "name").str) > 200
           \/ Arg(call.args, "type").type # "string"
           \/ Arg(call.args, "type").str \notin EntityTypes

\* C16: a tool call that fails local validation (an id that is no UUID, an
\* entity name of length 0 or above 200, an entity type outside the list)
\* returns an error result and causes no network request.
C16_InvalidCallRefused ==
  RefusedByHandler =>
    /\ pc = "done"
    /\ toolResult.isError
    /\ Includes(toolResult.text, "\"error\": \"Tool execution failed\"")
    /\ log = <<>>
    /\ reqResult = Pending
    /\ opResult = Pending

\* C16 witness: entity_link with a memory_id that is no UUID was refused.
C16_Witness ==
  /\ call = Call("entity_link", [entity_id |-> Str(ValidId), memory_id |-> Str("mem-123")])
  /\ pc = "done"
  /\ toolResult.isError
  /\ Includes(toolResult.text, "Validation error")
  /\ log = <<>>

HealthDone == pc = "done" /\ call = HealthCall

EveryAttemptFailed == Len(log) >= 1 /\ \A i \in 1..Len(log) : Failed(i)

Unhealthy ==
  /\ opResult.kind = "return"
  /\ Field(opResult.value, "status") = "unhealthy"

ConnectionRefused(i) ==
  log[i].outcome.kind = "reject" /\ Includes(log[i].outcome.error.message, "ECONNREFUSED")

ErrorPayloadPrefix == "{\n  \"error\": \"Tool execution failed\",\n  \"message\": \""

\* C18: the tool-call handler always returns a response: a success content
\* result, or a payload {error, message, details?} marked isError; a tool
\* name outside the catalog yields an error result whose message names the
\* tool, and no network request.
C18_HandlerAlwaysResponds ==
  (pc = "done" /\ call.via = "tool") =>
    /\ toolResult # NoToolResponse
    /\ toolResult.isError \in BOOLEAN
    /\ toolResult.isError <=>
         \/ ToolError(call) # NoError
         \/ opResult.kind = "throw"
         \/ ToolPayload(call, opResult).kind = "throw"
    /\ toolResult.isError => StartsWith(toolResult.text, ErrorPayloadPrefix)
    /\ ~toolResult.isError =>
         toolResult.text = JSONstringify(ToolPayload(call, opResult).value)
    /\ call.name \notin Tools =>
         /\ toolResult.isError
         /\ Includes(toolResult.text, "\"message\": \"Unknown tool: " \o call.name \o "\"")
         /\ log = <<>>
         /\ reqResult = Pending

\* C18 witness: a call of the tool memory_purge, which the catalog lacks, was
\* answered with an error result.
C18_Witness ==
  /\ pc = "done"
  /\ call = Call("memory_purge", <<>>)
  /\ toolResult.isError
  /\ Includes(toolResult.text, "Unknown tool: memory_purge")
  /\ log = <<>>

\* the value of a numeric argument, d when the argument is absent
NumArg(f, d) ==
  IF call.args = Undefined \/ Arg(call.args, f).type # "number" THEN d
  ELSE Arg(call.args, f).num

OutsideDeclaredShape ==
  /\ call.via = "tool"
  /\ \/ /\ call.name = "memory_search"
        /\ \/ NumArg("limit", 10) \notin 1..50
           \/ NumArg("threshold", 0) \notin 0..1
     \/ /\ call.name = "memory_list"
        /\ \/ NumArg("limit", 20) \notin 1..100
           \/ NumArg("offset", 0) < 0
     \/ /\ call.name = "memory_store"
        /\ \/ call.args = Undefined
           \/ Arg(call.args, "content").type # "string"

\* C19: a tool call outside its declared argument shape (memory_search limit
\* outside 1..50 or threshold outside 0..1, memory_list limit outside 1..100
\* or negative offset, memory_store content missing or not a string) is
\* rejected with an error result and no network request.
C19_ShapeEnforced ==
  (pc # "idle" /\ OutsideDeclaredShape) =>
    /\ pc = "done"
    /\ toolResult.isError
    /\ log = <<>>

MemoryOps ==
  {"storeMemory", "searchMemories", "listMemories", "getMemory", "updateMemory",
   "deleteMemory"}

\* the URL of the REST surface for a memory operation
SurfaceUrl(op) ==
  CASE op.name = "storeMemory" -> config.apiUrl \o "/v1/memories"
    [] op.name = "searchMemories" -> config.apiUrl \o "/v1/memories/search"
    [] op.name = "listMemories" ->
         config.apiUrl \o "/v1/memories?limit="
           \o ToStr(Default(Arg(op.args, "limit"), Num(20)))
           \o "&offset=" \o ToStr(Default(Arg(op.args, "offset"), Num(0)))
    [] OTHER -> config.apiUrl \o "/v1/memories/" \o ToStr(op.args.id)

SurfaceMethod(op) ==
  CASE op.name \in {"storeMemory", "searchMemories"} -> "POST"
    [] op.name = "updateMemory" -> "PATCH"
    [] op.name = "deleteMemory" -> "DELETE"
    [] OTHER -> "GET"

\* C20: every request of a memory operation goes to the URL of the REST
\* surface: POST /v1/memories, POST /v1/memories/search,
\* GET /v1/memories?limit=&offset=, and GET, PATCH, DELETE /v1/memories/{id}.
C20_MemoryUrls ==
  \A i \in 1..Len(log) :
    OpOf(call).name \in MemoryOps =>
      /\ log[i].request.method = SurfaceMethod(OpOf(call))
      /\ log[i].request.url = SurfaceUrl(OpOf(call))

\* C21: the health check sends GET to {baseURL}/health.
C21_HealthUrl ==
  \A i \in 1..Len(log) :
    call = HealthCall =>
      /\ log[i].request.method = "GET"
      /\ log[i].request.url = config.apiUrl \o "/health"

----------------------------------------------------------------------------
(* Properties of sanitizeHtml, under SanitizeSpec *)

\* the entity of a character, the character itself when it has none
HtmlEntity(c) ==
  CASE c = "&" -> "&amp;"
    [] c = "<" -> "&lt;"
    [] c = ">" -> "&gt;"
    [] c = "\"" -> "&quot;"
    [] c = "'" -> "&#x27;"
    [] c = "/" -> "&#x2F;"
    [] OTHER -> c

RECURSIVE EscapedOnce(_)
EscapedOnce(str) ==
  IF str = "" THEN ""
  ELSE HtmlEntity(Chr(str, 1)) \o EscapedOnce(SubSeq(str, 2, Len(str)))

EscapedChars == {"&", "<", ">", "\"", "'", "/"}

----------------------------------------------------------------------------
(* Properties of startup, under StartSpec *)

\* an environment variable that is set to some text
IsSet(v) == v.type = "string" /\ v.str # ""

ConfigLoaded == proc.phase # "init" /\ proc.starts >= 1

ConfigRefused == proc.phase # "init" /\ proc.starts = 0

\* C23: the agent identifier is MEMORYRELAY_AGENT_ID when set, otherwise
\* OPENCLAW_AGENT_NAME when set, otherwise 'agent-' followed by the first 8
\* characters of the hostname.
C23_AgentIdOrder ==
  ConfigLoaded =>
    proc.agentId =
      IF IsSet(env.MEMORYRELAY_AGENT_ID) THEN env.MEMORYRELAY_AGENT_ID.str
      ELSE IF IsSet(env.OPENCLAW_AGENT_NAME) THEN env.OPENCLAW_AGENT_NAME.str
      ELSE IF IsSet(env.HOSTNAME)
      THEN "agent-" \o SubSeq(env.HOSTNAME.str, 1, Min(8, Len(env.HOSTNAME.str)))
      ELSE proc.agentId

\* a text that is the decimal writing of a positive number
IsPositiveNumber(t) ==
  /\ t # ""
  /\ \A i \in 1..Len(t) : IsDigit(Chr(t, i))
  /\ \E i \in 1..Len(t) : Chr(t, i) # "0"

\* the environment meets every rule of the configuration
ValidEnv ==
  /\ env.MEMORYRELAY_API_KEY.type = "string"
  /\ StartsWith(env.MEMORYRELAY_API_KEY.str, "mem_")
  /\ Len(env.MEMORYRELAY_API_KEY.str) >= 20
  /\ IsSet(env.MEMORYRELAY_API_URL) =>
       env.MEMORYRELAY_API_URL.str \in {"https://custom.api.example.com"}
  /\ IsSet(env.MEMORYRELAY_TIMEOUT) => IsPositiveNumber(env.MEMORYRELAY_TIMEOUT.str)
  /\ IsSet(env.MEMORYRELAY_LOG_LEVEL) =>
       env.MEMORYRELAY_LOG_LEVEL.str \in {"debug", "info", "warn", "error"}

\* C24: loadConfig succeeds only when the key starts with 'mem_' and has 20
\* characters or more, the URL (if given) is a valid URL, the timeout (if
\* given) is a positive number and the log level (if given) is one of the
\* four; omitted values default to https://api.memoryrelay.net, 30000 and
\* 'info'; any violation raises 'Configuration validation failed'.
C24_ConfigValidated ==
  /\ ConfigLoaded =>
       /\ ValidEnv
       /\ ~IsSet(env.MEMORYRELAY_API_URL) =>
            proc.config.apiUrl = "https://api.memoryrelay.net"
       /\ ~IsSet(env.MEMORYRELAY_TIMEOUT) => proc.config.timeout = 30000
       /\ ~IsSet(env.MEMORYRELAY_LOG_LEVEL) => proc.config.logLevel = "info"
  /\ ConfigRefused =>
       /\ ~ValidEnv
       /\ Includes(proc.stderr[2], "Configuration validation failed")

\* C25: at startup a configuration failure or a transport failure ends the
\* process with a non-zero exit code after a message is printed, the server
\* is never started after a configuration failure, and serving a tool call,
\* failed or not, never ends the process.
C25_FatalOnlyAtStartup ==
  [][ /\ (proc.phase = "init" /\ loadConfig(env).kind = "throw") =>
           /\ proc'.phase = "exited"
           /\ proc'.exitCode # 0
           /\ Len(proc'.stderr) >= 1
           /\ proc'.stderr[2] = loadConfig(env).error.message
           /\ proc'.starts = 0
      /\ (proc.phase = "starting" /\ proc'.phase # "running") =>
           /\ proc'.phase = "exited"
           /\ proc'.exitCode # 0
           /\ Len(proc'.stderr) >= 1
      /\ proc.phase = "exited" => proc' = proc
      /\ proc'.served # proc.served =>
           /\ proc'.phase = "running"
           /\ proc'.exitCode = proc.exitCode
           /\ toolResult'.isError \in BOOLEAN
    ]_vars

\* C25 witness: the transport failed to connect and the process exited with
\* code 1 after printing the failure.
C25_Witness ==
  /\ proc.phase = "exited"
  /\ proc.starts = 1
  /\ proc.exitCode = 1
  /\ proc.stderr[2] = "Transport closed"

----------------------------------------------------------------------------
(* Properties of the round trip, under RoundTripSpec *)

----------------------------------------------------------------------------
(* Properties of the attempts of an operation, under Spec *)

Success(i) == log[i].outcome.kind = "response" /\ Ok(log[i].outcome.response)

\* C27: once an attempt of an operation has received a 2xx response, the
\* operation makes no further attempt, whatever the body (empty or not JSON
\* included).
C27_NoAttemptAfterSuccess ==
  \A i \in 1..Len(log) : Success(i) => EndedAt(i)

\* C28: delete memory, delete entity and link entity discard the body: after
\* any success-status response (a 204 with an empty body included) they
\* resolve with no value after that single attempt.
C28_BodyDiscarded ==
  (pc # "idle" /\ OpOf(call).name \in {"deleteMemory", "deleteEntity", "linkEntity"}
     /\ Len(log) >= 1 /\ Success(1)) =>
    /\ EndedAt(1)
    /\ opResult = ReturnedUndefined

RateLimitedNoHeader(i) ==
  /\ log[i].outcome.kind = "response"
  /\ log[i].outcome.response.status = 429
  /\ ~log[i].outcome.response.retryAfter.present

\* C29: an operation answered with 429 without Retry-After on every attempt
\* ends after exactly 4 attempts and 4 rate-limit waits and raises a
\* rate-limit failure.
C29_RateLimitBudget ==
  (Len(log) >= 1 /\ \A i \in 1..Len(log) : RateLimitedNoHeader(i)) =>
    /\ \A i \in 1..Len(log) : log[i].waited = <<[kind |-> "rateLimit", ms |-> 5000]>>
    /\ pc = "done" <=> Len(log) = 4
    /\ pc = "done" =>
         /\ reqResult.kind = "throw"
         /\ StartsWith(reqResult.error.message, "Rate limited: 429")

\* the bounds of the sleep after the failure of attempt index i
SleepMin(i) == 1000 * (2 ^ i)

SleepMax(i) == 1300 * (2 ^ i)

----------------------------------------------------------------------------
(* What every network attempt carries *)

\* the value of a header of a request, "" when the request has none
HeaderOf(request, name) == Field(request.headers, name)

----------------------------------------------------------------------------
(* The message of a failure raised for a non-success status *)

\* the attempt was answered with a non-success status other than 429
StatusFailure(i) ==
  /\ log[i].outcome.kind = "response"
  /\ ~Ok(log[i].outcome.response)
  /\ log[i].outcome.response.status # 429

\* 'API request failed: <status> <statusText>'
StatusLine(response) ==
  "API request failed: " \o NumToString(response.status) \o " " \o response.statusText

\* the message field of a JSON error body, "" when the body is not JSON or
\* has no such field
BodyMessage(response) ==
  IF response.body.parses THEN Field(response.body.value, "message") ELSE ""

\* the message the claim describes
DescribedMessage(response) ==
  StatusLine(response)
    \o (IF BodyMessage(response) # "" THEN " - " \o BodyMessage(response) ELSE "")

\* C36: for a non-success response other than 429 the failure raised has the
\* message 'API request failed: <status> <statusText>', followed by
\* ' - <message>' exactly when the error body is JSON with a non-empty message
\* field (whatever the redactor makes of a key echoed in it); a body that is not JSON yields the
\* message without suffix and the classification of its status line
C36_StatusFailureMessage ==
  \A i \in 1..Len(log) :
    StatusFailure(i) =>
      LET r == log[i].outcome.response
          raised == log[i].result.error.message
      IN /\ log[i].result.kind = "throw"
         /\ IF Includes(DescribedMessage(r), config.apiKey)
            THEN StartsWith(raised, StatusLine(r) \o " - ")
            ELSE raised = DescribedMessage(r)
         /\ ~r.body.parses =>
              /\ raised = StatusLine(r)
              /\ NonRetryable(raised) = NonRetryable(StatusLine(r))

----------------------------------------------------------------------------
(* The lines the logger writes *)

\* text holds 'mem_' followed by a letter, a digit, a dash or an underscore
KeyRun(text) ==
  \E i \in 1..Len(text) :
    At(text, i, "mem_") /\ i + 4 <= Len(text) /\ Chr(text, i + 4) \in KeyChars

\* the texts a logger call hands to sanitize: its message and, when it has
\* data, JSON.stringify(data, null, 2)
Scrubbed ==
  {logged.message}
    \cup (IF logged.data.present THEN {JSONstringify(logged.data.object)} ELSE {})

\* the line written holds no run of key characters after 'mem_'
NoKeyRunLogged == logged.called => ~KeyRun(logged.line)

\* C37: every line the logger emits, message and serialized data alike, holds
\* no 'mem_' followed by a letter, digit, dash or underscore, and applying the
\* scrub to text already scrubbed changes nothing
C37_LogLineScrubbed ==
  logged.called =>
    /\ ~KeyRun(logged.line)
    /\ \A text \in Scrubbed : sanitize(sanitize(text)) = sanitize(text)

\* the abort timers armed and not yet fired or cleared
AbortTimers == {e \in pending : e.kind = "abort"}

\* the attempts of the operations that have ended
EndedAttempts ==
  {x \in TaskIds \X (1..MAX_RETRIES + 1) :
     /\ x[2] <= Len(tasks[x[1]].log)
     /\ (x[2] < Len(tasks[x[1]].log) \/ tasks[x[1]].pc \in {"sleeping", "done"})}

\* C33: cancellation is scoped to one attempt. Every armed abort timer belongs
\* to the attempt its operation is making now (fetching, or waiting after a
\* 429) and holds that attempt's own controller, so the timer of an attempt
\* that has ended (success, status failure, network error, timeout) is
\* cleared; no two armed timers hold the same controller; and an attempt that
\* was aborted was aborted by its own timer, one timeout after it started.
C33_CancellationScopedToAttempt ==
  /\ \A e \in AbortTimers :
       /\ tasks[e.task].pc \in {"fetching", "waiting"}
       /\ tasks[e.task].attempt = e.attempt
       /\ tasks[e.task].signal = e.controller
       /\ e.controller = ControllerOf(e.task, e.attempt)
  /\ \A e, f \in AbortTimers : e.controller = f.controller => e = f
  /\ \A x \in EndedAttempts :
       LET entry == tasks[x[1]].log[x[2]] IN
       /\ entry.abortedBy \in {<<>>, ControllerOf(x[1], x[2] - 1)}
       /\ entry.abortedBy # <<>> => entry.end = entry.start + config.timeout
       /\ ~\E e \in AbortTimers : e.task = x[1] /\ e.attempt = x[2] - 1

\* C33 witness: the first operation has had one attempt cut off by its timer
\* and one ended by a status failure, its last attempt has ended in success,
\* and the second operation has a request in flight with its own timer armed.
C33_Witness ==
  /\ tasks["first"].pc = "done"
  /\ tasks["first"].result.kind = "return"
  /\ \E i \in 1..Len(tasks["first"].log) : tasks["first"].log[i].abortedBy # <<>>
  /\ \E i \in 1..Len(tasks["first"].log) :
       /\ tasks["first"].log[i].outcome.kind = "response"
       /\ tasks["first"].log[i].outcome.response.status = 500
  /\ tasks["second"].pc = "fetching"
  /\ \E e \in AbortTimers : e.task = "second"

\* the operations that have been called
Called == {id \in TaskIds : tasks[id].pc # "idle"}

\* what the network did with the attempts of an operation that have ended
OutcomesOf(id) == [i \in 1..Len(tasks[id].log) |-> tasks[id].log[i].outcome]

\* the operation has run as it runs alone against the same answers: its
\* counter counts its own attempts, the attempt that has just ended is followed
\* by what withRetry does with that attempt's own result, and once done each of
\* its attempts ended as the function request() hands to withRetry ends on
\* that answer, and its result is that of its last attempt
RunsAsAlone(id) ==
  LET t == tasks[id]
      last == Len(t.log)
  IN /\ t.attempt = last - 1
     /\ last <= MAX_RETRIES + 1
     /\ t.pc \in {"sleeping", "done"} =>
          /\ t.log[last].result.kind = "throw" => t.lastError = t.log[last].result.error
          /\ (t.pc = "sleeping") =
               (withRetry(last - 1, t.log[last].result, MAX_RETRIES) = "backoff")
     /\ t.pc = "done" =>
          /\ \A i \in 1..last : t.log[i].result = AttemptFn(config, OutcomesOf(id)[i]).result
          /\ t.result = RequestResult(t.log)

\* C34: operations running concurrently on one client are independent. Under
\* every interleaving each operation has its own attempt counter and
\* last-failure value and ends as it would alone against the same answers,
\* after at most 4 attempts; a step of one operation changes no other
\* operation; and no step changes the client's configuration.
C34_OperationsIndependent ==
  /\ [](\A id \in Called : RunsAsAlone(id))
  /\ [][/\ config' = config
        /\ \A id \in TaskIds : tasks'[id] # tasks[id] =>
             \A other \in TaskIds \ {id} : tasks'[other] = tasks[other]]_vars

\* C34 witness: the first operation has failed on all 4 of its attempts and
\* raised its last failure, and the second operation, called while the first
\* was still running, has returned after a single attempt.
C34_Witness ==
  /\ tasks["first"].pc = "done"
  /\ Len(tasks["first"].log) = MAX_RETRIES + 1
  /\ tasks["first"].result.kind = "throw"
  /\ tasks["second"].pc = "done"
  /\ Len(tasks["second"].log) = 1
  /\ tasks["second"].result.kind = "return"
  /\ tasks["first"].started <= tasks["second"].started
  /\ tasks["second"].started < tasks["first"].ended

\* the attempts that have ended and were answered 429 with a Retry-After wait
\* longer than the configured timeout
LongWaits ==
  {x \in EndedAttempts :
     LET o == tasks[x[1]].log[x[2]].outcome
     IN /\ o.kind = "response"
        /\ o.response.status = 429
        /\ ~WaitMs(o.response).nan
        /\ WaitMs(o.response).n > config.timeout}

\* the abort timer of an attempt is armed, or has fired, while the attempt
\* waits after a 429
TimerArmedDuringWait ==
  \A id \in TaskIds : tasks[id].pc = "waiting" =>
    \/ tasks[id].log[Len(tasks[id].log)].timerFired
    \/ \E e \in pending : e.kind = "abort" /\ e.controller = tasks[id].signal

\* C32: the abort timer of an attempt stays armed during the rate-limit wait
\* of that attempt, yet a Retry-After wait longer than the configured timeout
\* is slept in full (the timer fires during it and cuts nothing off) and the
\* attempt ends as the failure 'Rate limited: 429 - Retry after <n>ms', never
\* as a timeout failure.
C32_LongWaitSleptInFull ==
  /\ TimerArmedDuringWait
  /\ \A x \in LongWaits :
       LET entry == tasks[x[1]].log[x[2]] IN
       /\ entry.timerFired
       /\ entry.abortedBy = <<>>
       /\ entry.end - entry.answered = WaitMs(entry.outcome.response).n
       /\ entry.result.kind = "throw"
       /\ entry.result.error.message =
            "Rate limited: 429 - Retry after "
              \o NumToString(WaitMs(entry.outcome.response).n) \o "ms"

\* C32 apart from the failure of the redactor: with an api key free of regular
\* expression metacharacters the long wait is slept in full and ends as the
\* rate-limit failure.
C32_HoldsForPlainKeys == config.apiKey = PlainKey => C32_LongWaitSleptInFull

\* a long wait has ended under a key free of metacharacters
C32_PlainLongWaitEnded == config.apiKey = PlainKey /\ LongWaits # {}

\* the wall-clock time of an operation that has ended is at most the timeout
\* of each of the 4 attempts it may make, plus its backoff sleeps
WithinTimeBound(id) ==
  tasks[id].ended - tasks[id].started
    <= (MAX_RETRIES + 1) * config.timeout + tasks[id].slept

\* an operation that is running has made at most 4 attempts and has an event to
\* come that moves it on: the answer or the abort timer of its fetch, the end
\* of its rate-limit wait, or the end of its backoff sleep
Progresses(id) ==
  /\ Len(tasks[id].log) <= MAX_RETRIES + 1
  /\ tasks[id].pc = "fetching" =>
       \E e \in pending : e.kind \in {"answer", "abort"} /\ e.controller = tasks[id].signal
  /\ tasks[id].pc = "waiting" =>
       \E e \in pending : e.kind = "wait" /\ e.controller = tasks[id].signal
  /\ tasks[id].pc = "sleeping" =>
       /\ tasks[id].attempt < MAX_RETRIES
       /\ \E e \in pending : e.kind = "backoff" /\ e.task = id

\* C31: every client operation eventually returns or raises, provided every
\* network call either responds or is cut off by the timeout: the retry loop
\* makes at most 4 attempts, each followed by an event that moves the operation
\* on, and the total time spent is at most 4 times the per-request timeout plus
\* the backoff sleeps.
C31_EndsWithinTimeBound ==
  \A id \in TaskIds :
    /\ Progresses(id)
    /\ tasks[id].pc = "done" => WithinTimeBound(id)

\* C31, the part that holds: the retry loop cannot run forever.
C31_LoopProgresses == \A id \in TaskIds : Progresses(id)

\* C31 without the rate-limit wait: an operation none of whose attempts was
\* answered 429 ends within 4 timeouts plus its backoff sleeps.
C31_BoundWithoutRateLimit ==
  \A id \in TaskIds :
    (/\ tasks[id].pc = "done"
     /\ \A i \in 1..Len(tasks[id].log) :
          ~(tasks[id].log[i].outcome.kind = "response"
            /\ tasks[id].log[i].outcome.response.status = 429))
      => WithinTimeBound(id)

=============================================================================
